---------------------------- MODULE Spec2Model ----------------------------
(***************************************************************************)
(* A model of the simulation core of src/src/components/GameCanvas.tsx:    *)
(* the GameState record, the level loaders, the per-frame gameLoop         *)
(* (input, physics, terrain resolution, behaviour pass, interaction pass,  *)
(* countdown), the key handlers, Start, Reset and the deferred transition  *)
(* to World 1-2.                                                           *)
(*                                                                         *)
(* Numbers.  The program computes with IEEE doubles.  Every length and     *)
(* velocity is kept here as an integer number of 1/Unit pixels, so that    *)
(* GRAVITY (0.6), the fireball gravity (0.6 * 0.3), the mushroom speed     *)
(* (1.5) and the player speed are exact; the two multiplications by a      *)
(* fraction (friction 0.85, fireball restitution 0.7) truncate towards     *)
(* zero at 1/Unit pixel.  The countdown is kept in frames (1/60 s).        *)
(***************************************************************************)
EXTENDS Integers, Sequences, FiniteSets, TLC

Unit == 100

P(n) == n * Unit

CANVAS_WIDTH == 800
GRAVITY == 60
JUMP_FORCE == -1400
MARIO_SPEED == 400
GOOMBA_SPEED == 100
FLOOR_Y == 368
TERMINAL_VY == 1500
LEVEL_TIME == 24000

Abs(n) == IF n < 0 THEN -n ELSE n

Min(a, b) == IF a < b THEN a ELSE b

Max(a, b) == IF a > b THEN a ELSE b

\* v * num / den, truncated towards zero
MulFrac(v, num, den) == IF v >= 0 THEN (v * num) \div den ELSE -(((-v) * num) \div den)

(***************************************************************************)
(* GameObject.  Optional fields of the interface that an object does not   *)
(* carry hold the value the code's `|| 0` / falsy tests read for them;     *)
(* hasVy is obj.hasOwnProperty('vy').                                      *)
(***************************************************************************)
GameObject(t, x, y, w, h) ==
  [type |-> t, x |-> P(x), y |-> P(y), width |-> P(w), height |-> P(h),
   active |-> TRUE, solid |-> FALSE, broken |-> FALSE,
   vx |-> 0, vy |-> 0, hasVy |-> FALSE, direction |-> 0,
   shell |-> FALSE, bounce |-> 0, moving |-> FALSE, minY |-> 0, maxY |-> 0]

Solid(t, x, y, w, h) == [GameObject(t, x, y, w, h) EXCEPT !.solid = TRUE]

Goomba(x, dir) ==
  [GameObject("goomba", x, 336, 20, 20) EXCEPT !.vx = dir * GOOMBA_SPEED, !.direction = dir]

Koopa(x, dir) ==
  [GameObject("koopa", x, 336, 20, 20) EXCEPT !.vx = dir * P(1), !.direction = dir]

Piranha(x) ==
  [GameObject("piranha", x, 280, 16, 16) EXCEPT
     !.vy = -P(1), !.hasVy = TRUE, !.minY = P(264), !.maxY = P(304)]

Elevator(x, y, vy) ==
  [GameObject("elevator", x, y, 64, 16) EXCEPT
     !.vy = vy * P(1), !.hasVy = TRUE, !.minY = P(240), !.maxY = P(320), !.moving = TRUE]

Coin(x, y) == GameObject("coin", x, y, 16, 16)

\* the objects a hit block pushes
SpawnItem(t, obj) ==
  [GameObject(t, 0, 0, 16, 16) EXCEPT
     !.x = obj.x, !.y = obj.y - P(20),
     !.vx = IF t = "fireflower" THEN 0 ELSE 150,
     !.vy = -P(2), !.hasVy = TRUE]

SpawnCoin(obj) ==
  [GameObject("coin", 0, 0, 16, 16) EXCEPT
     !.x = obj.x + P(8), !.y = obj.y - P(20), !.vx = 0, !.vy = -P(8), !.hasVy = TRUE]

SpawnStarman(obj) ==
  [GameObject("starman", 0, 0, 16, 16) EXCEPT
     !.x = obj.x, !.y = obj.y - P(20), !.vx = P(2), !.vy = -P(8), !.hasVy = TRUE]

\* World 1-1
Level1Objects ==
  [i \in 1..60 |-> Solid("ground", (i - 1) * 32, 368, 32, 32)]
  \o << Solid("block", 256, 272, 32, 32),
        Solid("block", 352, 272, 32, 32),
        Solid("block", 768, 272, 32, 32),
        Solid("block", 1200, 272, 32, 32),
        Solid("brick", 320, 272, 32, 32),
        Solid("brick", 384, 272, 32, 32),
        Solid("brick", 416, 272, 32, 32),
        Solid("brick", 480, 272, 32, 32),
        Solid("brick", 512, 272, 32, 32),
        Solid("pipe", 448, 304, 64, 64),
        Solid("pipe", 608, 272, 64, 96),
        Solid("pipe", 928, 240, 64, 128),
        Solid("pipe", 1344, 208, 64, 160),
        Goomba(300, -1), Goomba(400, -1), Goomba(520, 1), Goomba(680, -1),
        Goomba(800, 1), Goomba(1000, -1), Goomba(1100, 1), Goomba(1280, -1),
        Coin(320, 200), Coin(480, 240), Coin(640, 200), Coin(800, 180), Coin(1040, 200),
        Solid("flag", 1500, 200, 32, 168) >>

\* World 1-2
Level2Objects ==
  [i \in 1..80 |-> Solid("ground", (i - 1) * 32, 368, 32, 32)]
  \o [i \in 1..80 |-> Solid("brick", (i - 1) * 32, 0, 32, 32)]
  \o [i \in 1..11 |-> Solid("brick", 0, (i - 1) * 32 + 32, 32, 32)]
  \o << Solid("block", 128, 272, 32, 32),
        Solid("block", 160, 272, 32, 32),
        Solid("brick", 192, 272, 32, 32),
        Solid("brick", 224, 272, 32, 32),
        Solid("brick", 256, 272, 32, 32),
        Solid("brick", 384, 240, 32, 32),
        Solid("brick", 416, 240, 32, 32),
        Solid("brick", 448, 240, 32, 32),
        Solid("pipe", 544, 304, 64, 64),
        Piranha(544),
        Solid("block", 672, 272, 32, 32),
        Solid("block", 704, 272, 32, 32),
        Solid("block", 736, 272, 32, 32),
        Solid("pipe", 832, 304, 64, 64),
        Piranha(832),
        Solid("brick", 960, 336, 32, 32),
        Solid("brick", 992, 304, 32, 32),
        Solid("brick", 1024, 272, 32, 32),
        Solid("brick", 1056, 240, 32, 32),
        Koopa(1120, -1), Koopa(1200, 1),
        Elevator(1280, 320, -1), Elevator(1400, 240, 1),
        Solid("pipe", 1520, 304, 64, 64),
        Piranha(1520),
        Goomba(250, -1), Goomba(500, 1), Goomba(780, -1), Goomba(1350, 1),
        Coin(160, 200), Coin(400, 180), Coin(432, 180), Coin(688, 200),
        Coin(720, 200), Coin(1300, 150),
        Solid("brick", 1600, 208, 32, 32),
        Solid("brick", 1632, 208, 32, 32),
        Solid("brick", 1664, 208, 32, 32),
        Solid("pipe", 1728, 144, 64, 224),
        Solid("flag", 1900, 200, 32, 168) >>

\* the player record of useState
InitialMario ==
  [x |-> P(50), y |-> P(300), width |-> P(20), height |-> P(20),
   vx |-> 0, vy |-> 0, grounded |-> FALSE, big |-> FALSE, fire |-> FALSE,
   invincible |-> 0]

checkCollision(a, b) ==
  /\ a.x < b.x + b.width
  /\ a.x + a.width > b.x
  /\ a.y < b.y + b.height
  /\ a.y + a.height > b.y

VARIABLES mario, objects, score, lives, coins, gameRunning, gameWon, gameOver,
          keys, currentLevel, time, pending, log, nTicks, nKeys

vars == << mario, objects, score, lives, coins, gameRunning, gameWon, gameOver,
           keys, currentLevel, time, pending, log, nTicks, nKeys >>


(***************************************************************************)
(* The working state of one gameLoop call: newState, the local copy of     *)
(* mario, the objects array, the local onGround, the outcome `rnd` of the  *)
(* Math.random() draws of this frame, the number of timers the frame has   *)
(* scheduled, and the list of what the frame did (ev).                     *)
(***************************************************************************)
NoObject == GameObject("none", 0, 0, 0, 0)

\* array.forEach over the indices lo..hi, in order: W, then Op(W, lo), ...
\* The range is halved, and the first half's result is read before the
\* second half begins, so that the evaluation nests to a depth of log(hi - lo).
RECURSIVE ForEach(_, _, _, _)
ForEach(Op(_, _), W, lo, hi) ==
  IF lo > hi THEN W
  ELSE IF lo = hi THEN Op(W, lo)
  ELSE LET mid == (lo + hi) \div 2
           first == ForEach(Op, W, lo, mid)
       IN  IF first.onGround \in BOOLEAN THEN ForEach(Op, first, mid + 1, hi) ELSE first

Snap(W) ==
  [big |-> W.mario.big, fire |-> W.mario.fire, height |-> W.mario.height,
   x |-> W.mario.x, y |-> W.mario.y, vx |-> W.mario.vx, vy |-> W.mario.vy,
   grounded |-> W.mario.grounded, invincible |-> W.mario.invincible,
   lives |-> W.lives, score |-> W.score, coins |-> W.coins,
   gameOver |-> W.gameOver, gameRunning |-> W.gameRunning, gameWon |-> W.gameWon,
   nobj |-> Len(W.objects), pending |-> W.pending]

\* W2 with the record of one step appended: what was done (kind, sub), to
\* which object (idx, 0 for none), and the state before and after it
Emit(W, W2, kind, idx, sub) ==
  [W2 EXCEPT !.ev = Append(W.ev,
     [kind |-> kind, idx |-> idx, sub |-> sub,
      pre |-> Snap(W), post |-> Snap(W2),
      opre |-> IF idx \in 1..Len(W.objects) THEN W.objects[idx] ELSE NoObject,
      opost |-> IF idx \in 1..Len(W2.objects) THEN W2.objects[idx] ELSE NoObject])]

Left(ks) == "ArrowLeft" \in ks \/ "KeyA" \in ks

Right(ks) == "ArrowRight" \in ks \/ "KeyD" \in ks

Jump(ks) == "Space" \in ks \/ "ArrowUp" \in ks \/ "KeyW" \in ks

\* lines 781-784
\* the timer counting down without the test that stops it at 0
InvincibilityTimerUnguarded(m) == [m EXCEPT !.invincible = m.invincible - 1]

InvincibilityTimer(m) ==
  IF m.invincible > 0 THEN [m EXCEPT !.invincible = m.invincible - 1] ELSE m

\* lines 786-799
HandleInput(m, ks) ==
  LET m1 == [m EXCEPT !.vx = IF Left(ks) THEN -MARIO_SPEED
                               ELSE IF Right(ks) THEN MARIO_SPEED
                               ELSE MulFrac(m.vx, 85, 100)]
  IN  IF Jump(ks) /\ m1.grounded
        THEN [m1 EXCEPT !.vy = JUMP_FORCE, !.grounded = FALSE]
        ELSE m1

\* objects.find(obj => obj.type === 'fireball'): the first one, active or not
FirstFireball(objs) ==
  LET S == {i \in 1..Len(objs) : objs[i].type = "fireball"}
  IN  IF S = {} THEN 0 ELSE CHOOSE i \in S : \A j \in S : i <= j

NewFireball(m) ==
  [GameObject("fireball", 0, 0, 8, 8) EXCEPT
     !.x = m.x + (IF m.vx > 0 THEN m.width ELSE -P(16)),
     !.y = m.y + m.height \div 2,
     !.vx = IF m.vx > 0 THEN P(8) ELSE IF m.vx < 0 THEN -P(8) ELSE P(8),
     !.vy = -P(2), !.hasVy = TRUE, !.bounce = 3]

CanShoot(W, ks) ==
  /\ "KeyX" \in ks
  /\ W.mario.fire
  /\ LET f == FirstFireball(W.objects)
     IN  f = 0 \/ Abs(W.objects[f].x - W.mario.x) > P(100)

\* lines 801-820
Shoot(W, ks) ==
  IF CanShoot(W, ks)
    THEN LET W2 == [W EXCEPT !.objects = Append(W.objects, NewFireball(W.mario))]
         IN  Emit(W, W2, "shoot", Len(W2.objects), "fireball")
    ELSE W

\* lines 822-832
Integrate(m) ==
  LET vy1 == m.vy + GRAVITY
      vy2 == IF vy1 > TERMINAL_VY THEN TERMINAL_VY ELSE vy1
  IN  [m EXCEPT !.vy = vy2, !.x = m.x + m.vx, !.y = m.y + vy2]

\* the policy without the 1-Up a Fire player gets in World 1-2
SpawnTypeNoOneUp(level, obj, m, rnd) ==
  IF level = 1
    THEN IF obj.x = P(352) THEN "mushroom"
         ELSE IF obj.x = P(768)
           THEN (IF m.big /\ ~m.fire THEN "fireflower" ELSE "mushroom")
         ELSE rnd
  ELSE IF level = 2
    THEN IF obj.x = P(128) \/ obj.x = P(160) THEN "coin"
         ELSE IF ~m.big THEN "mushroom"
         ELSE IF ~m.fire THEN "fireflower"
         ELSE "none"
  ELSE "none"

\* the policy with the block at 768 of World 1-1 treated as the block at 352
SpawnTypeNoFlower(level, obj, m, rnd) ==
  IF level = 1
    THEN IF obj.x = P(352) \/ obj.x = P(768) THEN "mushroom" ELSE rnd
  ELSE IF level = 2
    THEN IF obj.x = P(128) \/ obj.x = P(160) THEN "coin"
         ELSE IF ~m.big THEN "mushroom"
         ELSE IF ~m.fire THEN "fireflower"
         ELSE "oneup"
  ELSE "none"

\* what a hit question block spawns (lines 850-989)
SpawnType(level, obj, m, rnd) ==
  IF level = 1
    THEN IF obj.x = P(352) THEN "mushroom"
         ELSE IF obj.x = P(768)
           THEN (IF m.big /\ ~m.fire THEN "fireflower" ELSE "mushroom")
         ELSE rnd
  ELSE IF level = 2
    THEN IF obj.x = P(128) \/ obj.x = P(160) THEN "coin"
         ELSE IF ~m.big THEN "mushroom"
         ELSE IF ~m.fire THEN "fireflower"
         ELSE "oneup"
  ELSE "none"

\* the hit that leaves the block a question block
HitQuestionStaysBlock(W, i) ==
  LET obj == W.objects[i]
      t   == SpawnType(W.level, obj, W.mario, W.rnd)
  IN  IF t = "none" THEN W
      ELSE IF t = "coin"
        THEN [W EXCEPT !.objects = Append(W.objects, SpawnCoin(obj)),
                       !.coins = W.coins + 1, !.score = W.score + 200]
      ELSE [W EXCEPT !.objects = Append(W.objects, SpawnItem(t, obj))]

\* lines 846-989: the block becomes a brick and its item is pushed
HitQuestion(W, i) ==
  LET obj == W.objects[i]
      t   == SpawnType(W.level, obj, W.mario, W.rnd)
      os1 == [W.objects EXCEPT ![i].type = "brick"]
  IN  IF t = "none" THEN [W EXCEPT !.objects = os1]
      ELSE IF t = "coin"
        THEN [W EXCEPT !.objects = Append(os1, SpawnCoin(obj)),
                       !.coins = W.coins + 1, !.score = W.score + 200]
      ELSE [W EXCEPT !.objects = Append(os1, SpawnItem(t, obj))]

\* the brick broken by a player of any tier
HitBrickAnyTier(W, i) ==
  LET obj == W.objects[i]
      os1 == [W.objects EXCEPT ![i].active = FALSE, ![i].broken = TRUE]
  IN  [W EXCEPT !.score = W.score + 50,
                !.objects = IF W.level = 2 /\ obj.x = P(256)
                              THEN Append(os1, SpawnStarman(obj)) ELSE os1]

\* lines 990-1013: a big player breaks the brick
HitBrick(W, i) ==
  LET obj == W.objects[i]
      os1 == [W.objects EXCEPT ![i].active = FALSE, ![i].broken = TRUE]
  IN  IF W.mario.big
        THEN [W EXCEPT !.score = W.score + 50,
                       !.objects = IF W.level = 2 /\ obj.x = P(256)
                                     THEN Append(os1, SpawnStarman(obj)) ELSE os1]
        ELSE W

\* line 840
IsHitFromBelow(m, obj, prevY) ==
  /\ obj.type \in {"block", "brick"}
  /\ m.vy < 0
  /\ prevY >= obj.y + obj.height - P(5)
  /\ m.y <= obj.y + obj.height

\* the hit that leaves the player rising where it is
HitFromBelowNoBounce(W, i) ==
  LET obj == W.objects[i]
  IN  IF obj.type = "block"
        THEN Emit(W, HitQuestion(W, i), "hitQuestion", i,
                  SpawnType(W.level, obj, W.mario, W.rnd))
        ELSE Emit(W, HitBrick(W, i), "hitBrick", i,
                  IF W.mario.big THEN "break" ELSE "none")

\* lines 842-1014
HitFromBelow(W, i) ==
  LET obj == W.objects[i]
      W1  == [W EXCEPT !.mario.vy = P(3), !.mario.y = obj.y + obj.height]
  IN  IF obj.type = "block"
        THEN Emit(W, HitQuestion(W1, i), "hitQuestion", i,
                  SpawnType(W.level, obj, W.mario, W.rnd))
        ELSE Emit(W, HitBrick(W1, i), "hitBrick", i,
                  IF W.mario.big THEN "break" ELSE "none")

\* lines 1017-1041
NormalCollision(W, i) ==
  LET m   == W.mario
      obj == W.objects[i]
      overlapX == Min(m.x + m.width - obj.x, obj.x + obj.width - m.x)
      overlapY == Min(m.y + m.height - obj.y, obj.y + obj.height - m.y)
  IN  IF overlapX < overlapY
        THEN Emit(W, [W EXCEPT !.mario.x = IF m.x < obj.x THEN obj.x - m.width
                                            ELSE obj.x + obj.width,
                               !.mario.vx = 0], "collide", i, "horizontal")
      ELSE IF m.y < obj.y
        THEN Emit(W, [W EXCEPT !.mario.y = obj.y - m.height, !.mario.vy = 0,
                               !.mario.grounded = TRUE, !.onGround = TRUE],
                  "collide", i, "top")
      ELSE Emit(W, [W EXCEPT !.mario.y = obj.y + obj.height, !.mario.vy = 0],
                "collide", i, "bottom")

\* line 837
IsLiveSolid(obj) == obj.active /\ obj.solid /\ ~obj.broken

\* the callback without the return of line 1015: the generic resolution
\* runs after the hit from below
ResolveOneNoReturn(W, i) ==
  LET obj == W.objects[i]
  IN  IF IsLiveSolid(obj) /\ checkCollision(W.mario, obj)
        THEN IF IsHitFromBelow(W.mario, obj, W.prevY)
               THEN NormalCollision(HitFromBelow(W, i), i)
               ELSE NormalCollision(W, i)
        ELSE W

\* the callback of lines 836-1043 for objects[i]
ResolveOne(W, i) ==
  LET obj == W.objects[i]
  IN  IF IsLiveSolid(obj) /\ checkCollision(W.mario, obj)
        THEN IF IsHitFromBelow(W.mario, obj, W.prevY)
               THEN HitFromBelow(W, i)
               ELSE NormalCollision(W, i)
        ELSE W

\* lines 1045-1055
GroundCollision(W) ==
  LET m  == W.mario
      W1 == IF m.y + m.height >= P(FLOOR_Y)
              THEN Emit(W, [W EXCEPT !.mario.y = P(FLOOR_Y) - m.height, !.mario.vy = 0,
                                     !.mario.grounded = TRUE, !.onGround = TRUE],
                        "floor", 0, "clamp")
              ELSE W
  IN  IF ~W1.onGround /\ W1.mario.vy >= 0
        THEN [W1 EXCEPT !.mario.grounded = FALSE]
        ELSE W1

\* lines 834-1055: forEach visits the objects the array held when it began
TerrainPass(W) ==
  GroundCollision(ForEach(ResolveOne, [W EXCEPT !.onGround = FALSE], 1, Len(W.objects)))

\* the look-ahead test of lines 1067-1073 (and 1102-1108, 1118-1124)
HitsSolid(objs, obj, nextX) ==
  \E k \in 1..Len(objs) :
    /\ IsLiveSolid(objs[k])
    /\ nextX < objs[k].x + objs[k].width
    /\ nextX + obj.width > objs[k].x
    /\ obj.y < objs[k].y + objs[k].height
    /\ obj.y + obj.height > objs[k].y

AtLevelEdge(x) == x <= P(32) \/ x >= P(1900)

\* lines 1080-1083 and 1132-1135
KeepOnGround(obj) ==
  IF obj.y + obj.height < P(FLOOR_Y) THEN [obj EXCEPT !.y = P(FLOOR_Y) - obj.height] ELSE obj

\* `obj.direction || 1`, negated
FlipDirection(obj) == -(IF obj.direction = 0 THEN 1 ELSE obj.direction)

\* the patrol that turns at the level's edges only
PatrolEdgeOnly(objs, obj) ==
  LET o1 == [obj EXCEPT !.x = obj.x + obj.vx]
  IN  IF AtLevelEdge(o1.x)
        THEN [o1 EXCEPT !.vx = -o1.vx, !.direction = FlipDirection(o1)]
        ELSE o1

\* lines 1062-1084, and 1113-1130 for a walking koopa
Patrol(objs, obj) ==
  LET o1 == [obj EXCEPT !.x = obj.x + obj.vx]
      nextX == o1.x + o1.vx * 2
  IN  IF HitsSolid(objs, o1, nextX) \/ AtLevelEdge(o1.x)
        THEN [o1 EXCEPT !.vx = -o1.vx, !.direction = FlipDirection(o1)]
        ELSE o1

BehaveGoomba(W, i) ==
  [W EXCEPT !.objects[i] = KeepOnGround(Patrol(W.objects, W.objects[i]))]

\* the shell that only deactivates what is within 200 of the player
ShellKillsNearPlayer(W0, i) ==
  LET Kill(W, k) ==
        LET other == W.objects[k]
        IN  IF k # i /\ other.active /\ other.type \in {"goomba", "koopa"}
               /\ checkCollision(W.objects[i], other)
               /\ Abs(other.x - W.mario.x) <= P(200)
              THEN Emit(W, [W EXCEPT !.objects[k].active = FALSE,
                                     !.score = W.score + 100], "shellKill", k, "shell")
              ELSE W
  IN  ForEach(Kill, W0, 1, Len(W0.objects))

\* lines 1092-1098: the objects the moving shell objects[i] deactivates, in
\* array order
ShellKills(W0, i) ==
  LET Kill(W, k) ==
        LET other == W.objects[k]
        IN  IF k # i /\ other.active /\ other.type \in {"goomba", "koopa"}
               /\ checkCollision(W.objects[i], other)
              THEN Emit(W, [W EXCEPT !.objects[k].active = FALSE,
                                     !.score = W.score + 100], "shellKill", k, "shell")
              ELSE W
  IN  ForEach(Kill, W0, 1, Len(W0.objects))

\* lines 1086-1136
BehaveKoopa(W, i) ==
  LET obj == W.objects[i]
  IN  IF obj.shell /\ obj.vx # 0
        THEN LET W1 == ShellKills([W EXCEPT !.objects[i].x = obj.x + obj.vx], i)
                 o1 == W1.objects[i]
                 shellNextX == o1.x + o1.vx * 2
                 o2 == IF HitsSolid(W1.objects, o1, shellNextX) \/ AtLevelEdge(o1.x)
                         THEN [o1 EXCEPT !.vx = -o1.vx] ELSE o1
             IN  [W1 EXCEPT !.objects[i] = KeepOnGround(o2)]
      ELSE IF ~obj.shell
        THEN [W EXCEPT !.objects[i] = KeepOnGround(Patrol(W.objects, obj))]
      ELSE [W EXCEPT !.objects[i] = KeepOnGround(obj)]

\* the movement that does not turn at the upper end of its range
OscillateNoTurn(obj, dflt) ==
  LET o1 == [obj EXCEPT !.y = obj.y + obj.vy]
      hi == IF o1.maxY = 0 THEN P(dflt) ELSE o1.maxY
  IN  IF o1.y >= hi THEN [o1 EXCEPT !.vy = -P(1)] ELSE o1

\* lines 1140-1145 and 1151-1156: `dflt` stands for a missing maxY
Oscillate(obj, dflt) ==
  LET o1 == [obj EXCEPT !.y = obj.y + obj.vy]
      lo == IF o1.minY = 0 THEN P(200) ELSE o1.minY
      hi == IF o1.maxY = 0 THEN P(dflt) ELSE o1.maxY
  IN  IF o1.y <= lo THEN [o1 EXCEPT !.vy = P(1)]
      ELSE IF o1.y >= hi THEN [o1 EXCEPT !.vy = -P(1)]
      ELSE o1

BehavePiranha(W, i) == [W EXCEPT !.objects[i] = Oscillate(W.objects[i], 300)]

\* lines 1148-1163
BehaveElevator(W, i) ==
  IF W.objects[i].moving
    THEN LET o1 == Oscillate(W.objects[i], 320)
             W1 == [W EXCEPT !.objects[i] = o1]
         IN  IF W.mario.grounded /\ checkCollision(W.mario, o1) /\ W.mario.y <= o1.y
               THEN Emit(W, [W1 EXCEPT !.mario.y = W.mario.y + o1.vy], "carry", i, "elevator")
               ELSE W1
    ELSE W

\* lines 1179-1183: vx is negated once per live solid the item overlaps
BounceCount(objs, i) ==
  Cardinality({k \in 1..Len(objs) :
                 IsLiveSolid(objs[k]) /\ k # i /\ checkCollision(objs[i], objs[k])})

\* no floor under the items
FloorClampItemNone(obj) == obj

\* lines 1173-1176 and 1191-1194
FloorClampItem(obj) ==
  IF obj.y + obj.height >= P(FLOOR_Y)
    THEN [obj EXCEPT !.y = P(FLOOR_Y) - obj.height, !.vy = 0]
    ELSE obj

\* lines 1165-1184
BehavePowerUp(W, i) ==
  LET obj == W.objects[i]
      vy1 == obj.vy + GRAVITY
      o1  == FloorClampItem([obj EXCEPT !.x = obj.x + obj.vx, !.vy = vy1, !.y = obj.y + vy1])
      os1 == [W.objects EXCEPT ![i] = o1]
  IN  [W EXCEPT !.objects[i] =
         IF BounceCount(os1, i) % 2 = 1 THEN [o1 EXCEPT !.vx = -o1.vx] ELSE o1]

\* lines 1186-1195
BehaveFireFlower(W, i) ==
  LET obj == W.objects[i]
      vy1 == obj.vy + GRAVITY
  IN  [W EXCEPT !.objects[i] = FloorClampItem([obj EXCEPT !.vy = vy1, !.y = obj.y + vy1])]

\* lines 1219-1226: every active enemy the fireball objects[i] overlaps
FireballKills(W0, i) ==
  LET Kill(W, k) ==
        LET enemy == W.objects[k]
        IN  IF enemy.type \in {"goomba", "koopa", "piranha"} /\ enemy.active
               /\ checkCollision(W.objects[i], enemy)
              THEN Emit(W, [W EXCEPT !.objects[k].active = FALSE,
                                     !.objects[i].active = FALSE,
                                     !.score = W.score + 100],
                        "fireballKill", k,
                        IF W.objects[i].active THEN "live" ELSE "spent")
              ELSE W
  IN  ForEach(Kill, W0, 1, Len(W0.objects))

\* the fireball that no bounce and no edge of the level ends
BehaveFireballEndless(W, i) ==
  LET obj == W.objects[i]
      vy1 == obj.vy + MulFrac(GRAVITY, 3, 10)
      o1  == [obj EXCEPT !.x = obj.x + obj.vx, !.vy = vy1, !.y = obj.y + vy1]
      o2  == IF o1.y + o1.height >= P(FLOOR_Y)
               THEN [o1 EXCEPT !.y = P(FLOOR_Y) - o1.height,
                               !.vy = -MulFrac(Abs(o1.vy), 7, 10),
                               !.bounce = o1.bounce - 1]
               ELSE o1
  IN  FireballKills([W EXCEPT !.objects[i] = o2], i)

\* lines 1197-1227
BehaveFireball(W, i) ==
  LET obj == W.objects[i]
      vy1 == obj.vy + MulFrac(GRAVITY, 3, 10)
      o1  == [obj EXCEPT !.x = obj.x + obj.vx, !.vy = vy1, !.y = obj.y + vy1]
      o2  == IF o1.y + o1.height >= P(FLOOR_Y)
               THEN [o1 EXCEPT !.y = P(FLOOR_Y) - o1.height,
                               !.vy = -MulFrac(Abs(o1.vy), 7, 10),
                               !.bounce = o1.bounce - 1,
                               !.active = (o1.bounce - 1 > 0)]
               ELSE o1
      o3  == IF o2.x < -P(50) \/ o2.x > P(2000) THEN [o2 EXCEPT !.active = FALSE] ELSE o2
  IN  FireballKills([W EXCEPT !.objects[i] = o3], i)

\* lines 1229-1241: only a coin pushed by a block has a vy of its own
BehaveCoin(W, i) ==
  LET obj == W.objects[i]
      vy1 == obj.vy + GRAVITY
      o1  == [obj EXCEPT !.vy = vy1, !.y = obj.y + vy1, !.x = obj.x + obj.vx]
  IN  IF obj.hasVy /\ obj.active
        THEN [W EXCEPT !.objects[i] =
                IF o1.y > P(450) \/ (o1.vy # 0 /\ o1.vy > P(5))
                  THEN [o1 EXCEPT !.active = FALSE] ELSE o1]
        ELSE W

\* the callback of lines 1058-1243 for objects[i]
BehaveOne(W, i) ==
  LET obj == W.objects[i]
  IN  IF ~obj.active THEN W
      ELSE CASE obj.type = "goomba" -> BehaveGoomba(W, i)
             [] obj.type = "koopa" -> BehaveKoopa(W, i)
             [] obj.type = "piranha" -> BehavePiranha(W, i)
             [] obj.type = "elevator" -> BehaveElevator(W, i)
             [] obj.type \in {"mushroom", "oneup", "starman"} -> BehavePowerUp(W, i)
             [] obj.type = "fireflower" -> BehaveFireFlower(W, i)
             [] obj.type = "fireball" -> BehaveFireball(W, i)
             [] obj.type = "coin" -> BehaveCoin(W, i)
             [] OTHER -> W

\* lines 1057-1243
BehaviorPass(W) == ForEach(BehaveOne, W, 1, Len(W.objects))

\* lines 1287-1291: back to the level start
Respawn(m, inv) ==
  [m EXCEPT !.x = P(50), !.y = P(300), !.vx = 0, !.vy = 0, !.invincible = inv]

\* the life lost with the game ending one life late
LoseLifeLate(W) ==
  IF W.lives - 1 < 0
    THEN [W EXCEPT !.lives = W.lives - 1, !.gameOver = TRUE, !.gameRunning = FALSE]
    ELSE [W EXCEPT !.lives = W.lives - 1, !.mario = Respawn(W.mario, 180)]

\* lines 1281-1292 (and 1338-1349, 1368-1379)
LoseLife(W) ==
  IF W.lives - 1 <= 0
    THEN [W EXCEPT !.lives = W.lives - 1, !.gameOver = TRUE, !.gameRunning = FALSE]
    ELSE [W EXCEPT !.lives = W.lives - 1, !.mario = Respawn(W.mario, 180)]

\* the ladder without the grace period that follows a shrink
DamageLadderNoGrace(W) ==
  IF W.mario.fire
    THEN [W EXCEPT !.mario.fire = FALSE]
  ELSE IF W.mario.big
    THEN [W EXCEPT !.mario.big = FALSE, !.mario.height = P(20),
                   !.mario.y = W.mario.y + P(8)]
  ELSE LoseLife(W)

\* lines 1266-1293 (and 1327-1350, 1357-1380): one step down the ladder
DamageLadder(W) ==
  IF W.mario.fire
    THEN [W EXCEPT !.mario.fire = FALSE, !.mario.invincible = 120]
  ELSE IF W.mario.big
    THEN [W EXCEPT !.mario.big = FALSE, !.mario.height = P(20),
                   !.mario.y = W.mario.y + P(8), !.mario.invincible = 120]
  ELSE LoseLife(W)

DamageKind(m) == IF m.fire THEN "shrinkFire" ELSE IF m.big THEN "shrinkBig" ELSE "death"

\* line 1259 (and 1303)
IsStomp(m, obj) == m.vy > 0 /\ m.y < obj.y - P(5)

\* the Goomba contact with a stomp that does not bounce the player
ContactGoombaNoBounce(W, i) ==
  IF W.mario.invincible > 0
    THEN Emit(W, [W EXCEPT !.objects[i].active = FALSE, !.score = W.score + 100],
              "invincibleKill", i, "goomba")
  ELSE IF IsStomp(W.mario, W.objects[i])
    THEN Emit(W, [W EXCEPT !.objects[i].active = FALSE, !.score = W.score + 100],
              "stomp", i, "goomba")
  ELSE Emit(W, DamageLadder(W), "damage", i, DamageKind(W.mario))

\* lines 1253-1295
ContactGoomba(W, i) ==
  IF W.mario.invincible > 0
    THEN Emit(W, [W EXCEPT !.objects[i].active = FALSE, !.score = W.score + 100],
              "invincibleKill", i, "goomba")
  ELSE IF IsStomp(W.mario, W.objects[i])
    THEN Emit(W, [W EXCEPT !.objects[i].active = FALSE, !.mario.vy = JUMP_FORCE \div 2,
                           !.score = W.score + 100], "stomp", i, "goomba")
  ELSE Emit(W, DamageLadder(W), "damage", i, DamageKind(W.mario))

\* the kick that always sends the shell to the right
KickVxRight(m, obj) == P(8)

KickVx(m, obj) == IF m.x < obj.x THEN P(8) ELSE -P(8)

\* the Koopa contact in which a moving shell hurts like a walking Koopa
ContactKoopaShellHurts(W, i) ==
  LET obj == W.objects[i]
  IN  IF W.mario.invincible > 0
        THEN Emit(W, [W EXCEPT !.objects[i].active = FALSE, !.score = W.score + 100],
                  "invincibleKill", i, "koopa")
      ELSE IF IsStomp(W.mario, obj)
        THEN IF ~obj.shell
               THEN Emit(W, [W EXCEPT !.objects[i].shell = TRUE, !.objects[i].vx = 0,
                                      !.objects[i].width = P(16), !.objects[i].height = P(16),
                                      !.mario.vy = JUMP_FORCE \div 2,
                                      !.score = W.score + 100], "stomp", i, "koopa")
               ELSE Emit(W, [W EXCEPT !.objects[i].vx = KickVx(W.mario, obj),
                                      !.mario.vy = JUMP_FORCE \div 2,
                                      !.score = W.score + 100], "stomp", i, "shell")
      ELSE IF obj.shell /\ obj.vx = 0
        THEN Emit(W, [W EXCEPT !.objects[i].vx = KickVx(W.mario, obj),
                               !.score = W.score + 100], "kick", i, "shell")
      ELSE Emit(W, DamageLadder(W), "damage", i, DamageKind(W.mario))

\* lines 1297-1352
ContactKoopa(W, i) ==
  LET obj == W.objects[i]
  IN  IF W.mario.invincible > 0
        THEN Emit(W, [W EXCEPT !.objects[i].active = FALSE, !.score = W.score + 100],
                  "invincibleKill", i, "koopa")
      ELSE IF IsStomp(W.mario, obj)
        THEN IF ~obj.shell
               THEN Emit(W, [W EXCEPT !.objects[i].shell = TRUE, !.objects[i].vx = 0,
                                      !.objects[i].width = P(16), !.objects[i].height = P(16),
                                      !.mario.vy = JUMP_FORCE \div 2,
                                      !.score = W.score + 100], "stomp", i, "koopa")
               ELSE Emit(W, [W EXCEPT !.objects[i].vx = KickVx(W.mario, obj),
                                      !.mario.vy = JUMP_FORCE \div 2,
                                      !.score = W.score + 100], "stomp", i, "shell")
      ELSE IF obj.shell /\ obj.vx = 0
        THEN Emit(W, [W EXCEPT !.objects[i].vx = KickVx(W.mario, obj),
                               !.score = W.score + 100], "kick", i, "shell")
      ELSE IF ~obj.shell \/ obj.vx = 0
        THEN Emit(W, DamageLadder(W), "damage", i, DamageKind(W.mario))
      ELSE Emit(W, W, "touch", i, "movingShell")

\* the Piranha contact without its guard on invincible
ContactPiranhaUnguarded(W, i) ==
  Emit(W, DamageLadder(W), "damage", i, DamageKind(W.mario))

\* lines 1354-1382
ContactPiranha(W, i) ==
  IF W.mario.invincible = 0
    THEN Emit(W, DamageLadder(W), "damage", i, DamageKind(W.mario))
    ELSE Emit(W, W, "touch", i, "piranha")

\* lines 1384-1393
ContactCoin(W, i) ==
  LET c == W.coins + 1
  IN  Emit(W, [W EXCEPT !.objects[i].active = FALSE, !.score = W.score + 200,
                        !.coins = IF c >= 100 THEN 0 ELSE c,
                        !.lives = IF c >= 100 THEN W.lives + 1 ELSE W.lives],
           "pickup", i, "coin")

\* lines 1397-1401 (and 1425-1428)
Grow(m) ==
  [m EXCEPT !.big = TRUE, !.height = P(28), !.y = m.y - P(8)]

\* lines 1395-1404
ContactMushroom(W, i) ==
  Emit(W, [W EXCEPT !.objects[i].active = FALSE, !.score = W.score + 1000,
                    !.mario = IF ~W.mario.big THEN Grow(W.mario) ELSE W.mario],
       "pickup", i, "mushroom")

\* lines 1406-1411
ContactOneUp(W, i) ==
  Emit(W, [W EXCEPT !.objects[i].active = FALSE, !.lives = W.lives + 1,
                    !.score = W.score + 1000], "pickup", i, "oneup")

\* lines 1413-1418
ContactStarman(W, i) ==
  Emit(W, [W EXCEPT !.objects[i].active = FALSE, !.mario.invincible = 600,
                    !.score = W.score + 1000], "pickup", i, "starman")

\* the Fire Flower that stays where it is after the pickup
ContactFireFlowerStays(W, i) ==
  Emit(W, [W EXCEPT !.score = W.score + 1000,
                    !.mario = IF W.mario.big THEN [W.mario EXCEPT !.fire = TRUE]
                              ELSE Grow(W.mario)],
       "pickup", i, "fireflower")

\* the Fire Flower taking a Small player straight to Fire
ContactFireFlowerToFire(W, i) ==
  Emit(W, [W EXCEPT !.objects[i].active = FALSE, !.score = W.score + 1000,
                    !.mario = IF W.mario.big THEN [W.mario EXCEPT !.fire = TRUE]
                              ELSE [Grow(W.mario) EXCEPT !.fire = TRUE]],
       "pickup", i, "fireflower")

\* lines 1420-1432
ContactFireFlower(W, i) ==
  Emit(W, [W EXCEPT !.objects[i].active = FALSE, !.score = W.score + 1000,
                    !.mario = IF W.mario.big THEN [W.mario EXCEPT !.fire = TRUE]
                              ELSE Grow(W.mario)],
       "pickup", i, "fireflower")

\* the Flag that sets the timer in every level
ContactFlagAlwaysNext(W, i) ==
  Emit(W, [W EXCEPT !.pending = W.pending + 1, !.score = W.score + 5000],
       "flag", i, "next")

\* lines 1434-1449: in World 1-1 a timer for initializeWorld2 is set
ContactFlag(W, i) ==
  IF W.level = 1
    THEN Emit(W, [W EXCEPT !.pending = W.pending + 1, !.score = W.score + 5000],
              "flag", i, "next")
    ELSE Emit(W, [W EXCEPT !.gameWon = TRUE, !.gameRunning = FALSE,
                           !.score = W.score + 5000], "flag", i, "won")

\* the callback that does not skip inactive objects
InteractOneInactiveToo(W, i) ==
  LET obj == W.objects[i]
  IN  IF ~checkCollision(W.mario, obj) THEN W
      ELSE CASE obj.type = "goomba" -> ContactGoomba(W, i)
             [] obj.type = "koopa" -> ContactKoopa(W, i)
             [] obj.type = "piranha" -> ContactPiranha(W, i)
             [] obj.type = "coin" -> ContactCoin(W, i)
             [] obj.type = "mushroom" -> ContactMushroom(W, i)
             [] obj.type = "oneup" -> ContactOneUp(W, i)
             [] obj.type = "starman" -> ContactStarman(W, i)
             [] obj.type = "fireflower" -> ContactFireFlower(W, i)
             [] obj.type = "flag" -> ContactFlag(W, i)
             [] OTHER -> W

\* the callback of lines 1246-1452 for objects[i]
InteractOne(W, i) ==
  LET obj == W.objects[i]
  IN  IF ~obj.active \/ ~checkCollision(W.mario, obj) THEN W
      ELSE CASE obj.type = "goomba" -> ContactGoomba(W, i)
             [] obj.type = "koopa" -> ContactKoopa(W, i)
             [] obj.type = "piranha" -> ContactPiranha(W, i)
             [] obj.type = "coin" -> ContactCoin(W, i)
             [] obj.type = "mushroom" -> ContactMushroom(W, i)
             [] obj.type = "oneup" -> ContactOneUp(W, i)
             [] obj.type = "starman" -> ContactStarman(W, i)
             [] obj.type = "fireflower" -> ContactFireFlower(W, i)
             [] obj.type = "flag" -> ContactFlag(W, i)
             [] OTHER -> W

\* lines 1245-1452; the first record of the pass holds the state it began in
InteractionPass(W) ==
  ForEach(InteractOne, Emit(W, W, "interact", 0, "begin"), 1, Len(W.objects))

\* the respawn that takes the tier and leaves the height
DeathResetKeepsHeight(W, timeUp) ==
  IF W.lives - 1 <= 0
    THEN [W EXCEPT !.lives = W.lives - 1, !.gameOver = TRUE, !.gameRunning = FALSE]
    ELSE [W EXCEPT !.lives = W.lives - 1,
                   !.mario = [Respawn(W.mario, 180) EXCEPT !.big = FALSE, !.fire = FALSE],
                   !.time = IF timeUp THEN LEVEL_TIME ELSE W.time]

\* lines 1462-1474 and 1485-1497: a death that is not an enemy's
DeathReset(W, timeUp) ==
  IF W.lives - 1 <= 0
    THEN [W EXCEPT !.lives = W.lives - 1, !.gameOver = TRUE, !.gameRunning = FALSE]
    ELSE [W EXCEPT !.lives = W.lives - 1,
                   !.mario = [Respawn(W.mario, 180) EXCEPT
                                !.big = FALSE, !.fire = FALSE, !.height = P(20)],
                   !.time = IF timeUp THEN LEVEL_TIME ELSE W.time]

\* lines 1458-1475
FallCheck(W) ==
  IF W.mario.y > P(500) THEN Emit(W, DeathReset(W, FALSE), "death", 0, "fall") ELSE W

\* the countdown that starts again at 0 without taking a life
UpdateTimerNoDeath(W) ==
  IF W.time > 0
    THEN LET W1 == [W EXCEPT !.time = W.time - 1]
         IN  IF W1.time <= 0 THEN [W1 EXCEPT !.time = LEVEL_TIME] ELSE W1
    ELSE W

\* lines 1477-1500
UpdateTimer(W) ==
  IF W.time > 0
    THEN LET W1 == [W EXCEPT !.time = W.time - 1]
         IN  IF W1.time <= 0
               THEN Emit(W, DeathReset([W1 EXCEPT !.time = 0], TRUE), "death", 0, "timeUp")
               ELSE W1
    ELSE W

\* the updater of lines 776-1506 on prevState, with the keys it holds
gameLoop(W0, ks) ==
  LET B  == Emit(W0, W0, "tick", 0, "begin")
      W1 == [B EXCEPT !.mario = HandleInput(InvincibilityTimer(B.mario), ks)]
      W2 == Shoot(W1, ks)
      W3 == [W2 EXCEPT !.prevY = W2.mario.y, !.mario = Integrate(W2.mario)]
  IN  UpdateTimer(FallCheck(InteractionPass(BehaviorPass(TerrainPass(W3)))))

(***************************************************************************)
(* The state machine.  pending counts the setTimeout callbacks that have   *)
(* been scheduled and have not run; log holds what the last frame did;     *)
(* nTicks counts the frames run and nKeys the key events taken.            *)
(***************************************************************************)
MaxTicks == 2

MaxKeyEvents == 1

KeyCodes == {"ArrowLeft", "ArrowRight", "Space", "KeyX"}

RandomSpawns == {"coin", "mushroom", "oneup"}

World(rnd) ==
  [mario |-> mario, objects |-> objects, score |-> score, lives |-> lives,
   coins |-> coins, gameRunning |-> gameRunning, gameWon |-> gameWon,
   gameOver |-> gameOver, time |-> time, pending |-> pending,
   level |-> currentLevel, rnd |-> rnd, onGround |-> FALSE, prevY |-> 0,
   ev |-> << >>]

\* useState, lines 58-84
Constructed ==
  /\ mario = InitialMario
  /\ objects = << >>
  /\ score = 0
  /\ lives = 3
  /\ coins = 0
  /\ gameRunning = FALSE
  /\ gameWon = FALSE
  /\ gameOver = FALSE
  /\ keys = {}
  /\ currentLevel = 1
  /\ time = LEVEL_TIME
  /\ pending = 0
  /\ log = << >>
  /\ nTicks = 0
  /\ nKeys = 0

(***************************************************************************)
(* Worlds in mid-play.  A level is as its loader builds it, except that    *)
(* enemies have walked to another point of their patrol, items that blocks *)
(* have pushed lie where they come to rest, and the player is at rest on a *)
(* surface, falling, or some frames into a jump.                           *)
(***************************************************************************)
Tiers == {"small", "big", "fire"}

\* the three values of (big, fire, height) the code produces
Tier(m, t) ==
  [m EXCEPT !.big = (t # "small"), !.fire = (t = "fire"),
            !.height = IF t = "small" THEN P(20) ELSE P(28)]

TierOf(big, fire) == IF fire THEN "fire" ELSE IF big THEN "big" ELSE "small"

\* at rest on a surface whose top edge is at y = top
Standing(x, top, t, inv) ==
  [Tier(InitialMario, t) EXCEPT !.x = P(x), !.y = P(top) - Tier(InitialMario, t).height,
                                !.grounded = TRUE, !.invincible = inv]

\* k frames after the jump of lines 795-799, nothing in the way
Jumped(m, k) ==
  [m EXCEPT !.grounded = FALSE, !.vy = JUMP_FORCE + k * GRAVITY,
            !.y = m.y + k * JUMP_FORCE + GRAVITY * ((k * (k + 1)) \div 2)]

\* in the air with the feet at y = feet, moving down at vy
Falling(x, feet, vy, t, inv) ==
  [Tier(InitialMario, t) EXCEPT !.x = P(x), !.y = P(feet) - Tier(InitialMario, t).height,
                                !.vy = vy, !.invincible = inv]

\* the level some frames after its load: the walkers have dropped to the
\* floor (lines 1080-1083 and 1132-1135)
OnPatrol(objs) ==
  [i \in DOMAIN objs |->
     IF objs[i].type \in {"goomba", "koopa"} THEN KeepOnGround(objs[i]) ELSE objs[i]]

Level1Play == OnPatrol(Level1Objects)

Level2Play == OnPatrol(Level2Objects)

\* a walking enemy at another point of its patrol
Place(objs, i, x, dir) ==
  [objs EXCEPT ![i].x = P(x), ![i].vx = dir * Abs(objs[i].vx), ![i].direction = dir]

Checkpoint(level, objs, m, ks, l, c, t) ==
  [level |-> level, objects |-> objs, mario |-> m, keys |-> ks, lives |-> l,
   coins |-> c, time |-> t]

\* World 1-1, 318 frames after its load: the first Goomba has turned at the
\* left edge (x <= 32) and meets the second at x = 82; the player walks into
\* them or comes down on them
TwoGoombas == Place(Place(Level1Play, 74, 82, 1), 75, 82, -1)

GoombaCheckpoints ==
  { Checkpoint(1, TwoGoombas, Standing(60, FLOOR_Y, t, inv), {"ArrowRight"}, l, 0,
               LEVEL_TIME - 318) :
      t \in Tiers, inv \in {0, 1, 100}, l \in {1, 3} }
  \cup
  { Checkpoint(1, TwoGoombas, Falling(x, 346, P(4), t, inv), {}, 3, 0, LEVEL_TIME - 318) :
      x \in {62, 76}, t \in Tiers, inv \in {0, 100} }

\* the frame of a jump from the floor after which the head is just below a
\* block whose lower edge is at y = 304
JumpFrames(t) == IF t = "small" THEN 3 ELSE 2

UnderBlock(x, t) == Jumped(Standing(x, FLOOR_Y, t, 0), JumpFrames(t))

\* the player rising under a question block or a brick of World 1-1 (at
\* x = 374 under the block at 352 and the brick at 384 at once, at x = 406
\* under the bricks at 384 and 416)
Level1BlockCheckpoints ==
  { Checkpoint(1, Level1Play, UnderBlock(x, t), {}, 3, 0, LEVEL_TIME - 900) :
      x \in {262, 358, 374, 774, 1206, 326, 390, 406}, t \in Tiers }

\* the same in World 1-2: the coin blocks, a power-up block, a brick and the
\* brick at 256 that holds the Starman
Level2BlockCheckpoints ==
  { Checkpoint(2, Level2Play, UnderBlock(x, t), {}, 3, 0, LEVEL_TIME - 900) :
      x \in {134, 166, 710, 198, 262}, t \in Tiers }

\* a block of World 1-1 that has been hit before: it is a brick now and the
\* Mushroom it pushed lies on the floor
Resting(item, x) == [item EXCEPT !.x = P(x), !.y = P(FLOOR_Y) - item.height, !.vy = 0]

MushroomPushed ==
  Append([Level1Play EXCEPT ![62].type = "brick"],
         Resting(SpawnItem("mushroom", Level1Play[62]), 400))

UsedBlockCheckpoints ==
  { Checkpoint(1, MushroomPushed, UnderBlock(358, t), {}, 3, 0, LEVEL_TIME - 1200) :
      t \in Tiers }

\* the countdown about to run out
TimeCheckpoints ==
  { Checkpoint(1, Level1Play, Standing(50, FLOOR_Y, t, 0), {}, l, 0, tm) :
      t \in Tiers, l \in {1, 3}, tm \in {1, 2} }

\* World 1-2: the player on the first pipe, the Piranha coming up from the
\* pipe's mouth
PiranhaRising == [Level2Play EXCEPT ![181].y = P(304), ![181].vy = -P(1)]

PiranhaCheckpoints ==
  { Checkpoint(2, PiranhaRising, Standing(540, 304, t, inv), {}, l, 0, LEVEL_TIME - 900) :
      t \in Tiers, inv \in {0, 100}, l \in {1, 3} }

\* a Koopa that has been stomped (lines 1306-1309) and has dropped to the
\* floor (lines 1132-1135), at rest or kicked
Shelled(objs, i, x, vx) ==
  [objs EXCEPT ![i].shell = TRUE, ![i].x = P(x), ![i].vx = vx,
               ![i].width = P(16), ![i].height = P(16), ![i].y = P(FLOOR_Y) - P(16)]

\* World 1-2, the Koopas and the last Goomba between the brick stairs and
\* the third pipe; a kicked shell just leaving the player, or coming up to
\* a Goomba the player is on
KoopaAndGoomba == Place(Place(Level2Play, 191, 1210, -1), 200, 1210, 1)

ShellAndGoomba == Place(Shelled(Level2Play, 191, 1300, P(8)), 200, 1320, 1)

KoopaCheckpoints ==
  { Checkpoint(2, Level2Play, Standing(1100, FLOOR_Y, t, inv), {}, l, 0, LEVEL_TIME - 900) :
      t \in Tiers, inv \in {0, 100}, l \in {1, 3} }
  \cup
  { Checkpoint(2, Level2Play, Falling(1105, 346, P(4), t, 0), {}, 3, 0, LEVEL_TIME - 900) :
      t \in Tiers }
  \cup
  { Checkpoint(2, KoopaAndGoomba, Standing(1190, FLOOR_Y, t, inv), {"ArrowRight"}, 3, 0,
               LEVEL_TIME - 900) :
      t \in Tiers, inv \in {0, 100} }
  \cup
  { Checkpoint(2, Shelled(Level2Play, 191, 1124, 0), Standing(1100, FLOOR_Y, t, inv),
               {"ArrowRight"}, 3, 0, LEVEL_TIME - 900) :
      t \in Tiers, inv \in {0, 100} }
  \cup
  { Checkpoint(2, Shelled(Level2Play, 191, 1124, 0), Standing(1136, FLOOR_Y, "small", inv),
               {"ArrowLeft"}, 3, 0, LEVEL_TIME - 900) : inv \in {0, 100} }
  \cup
  { Checkpoint(2, Shelled(Level2Play, 191, 1124, 0), Falling(1120, 354, P(4), "small", 0),
               {}, 3, 0, LEVEL_TIME - 900) }
  \cup
  { Checkpoint(2, ShellAndGoomba, Standing(x, FLOOR_Y, "small", 0), {}, 3, 0, LEVEL_TIME - 900) :
      x \in {1100, 1290, 1326} }
  \cup
  { Checkpoint(2, ShellAndGoomba, Standing(1290, FLOOR_Y, t, inv), {}, 3, 0, LEVEL_TIME - 900) :
      t \in {"big", "fire"}, inv \in {0, 100} }
  \cup
  { Checkpoint(2, ShellAndGoomba, Falling(1296, 354, P(4), t, 0), {}, 3, 0, LEVEL_TIME - 900) :
      t \in {"small", "big"} }

\* items that blocks have pushed, at rest on the floor, the player next to them
FireFlowerPushed ==
  Append([Level1Play EXCEPT ![63].type = "brick"],
         Resting(SpawnItem("fireflower", Level1Play[63]), 768))

OneUpPushed ==
  Append([Level1Play EXCEPT ![61].type = "brick"],
         Resting(SpawnItem("oneup", Level1Play[61]), 200))

StarmanPushed ==
  Append([Level2Play EXCEPT ![176].active = FALSE, ![176].broken = TRUE],
         Resting(SpawnStarman(Level2Play[176]), 300))

\* World 1-2: the Mushroom of the block at 704 has rolled onto the Fire
\* Flower of the block at 736
MushroomOnFireFlower ==
  Append(Append([Level2Play EXCEPT ![183].type = "brick", ![184].type = "brick"],
                Resting(SpawnItem("mushroom", Level2Play[183]), 738)),
         Resting(SpawnItem("fireflower", Level2Play[184]), 736))

ItemCheckpoints ==
  { Checkpoint(1, MushroomPushed, Standing(416, FLOOR_Y, t, 0), {}, 3, 0, LEVEL_TIME - 1200) :
      t \in Tiers }
  \cup
  { Checkpoint(1, FireFlowerPushed, Standing(748, FLOOR_Y, t, 0), {"ArrowRight"}, 3, 0,
               LEVEL_TIME - 1200) : t \in Tiers }
  \cup
  { Checkpoint(1, OneUpPushed, Standing(216, FLOOR_Y, "small", 0), {}, l, 0,
               LEVEL_TIME - 1200) : l \in {1, 3} }
  \cup
  { Checkpoint(2, StarmanPushed, Standing(316, FLOOR_Y, t, 0), {}, 3, 0, LEVEL_TIME - 1200) :
      t \in {"small", "big"} }
  \cup
  { Checkpoint(2, StarmanPushed, UnderBlock(262, t), {}, 3, 0, LEVEL_TIME - 1200) :
      t \in {"small", "big"} }
  \cup
  { Checkpoint(2, MushroomOnFireFlower, Standing(716, FLOOR_Y, t, 0), {"ArrowRight"}, 3, 0,
               LEVEL_TIME - 1200) : t \in Tiers }

\* coin counts next to the conversion: the player on the bricks of World 1-1
\* beside the coin at (480, 240), and under the blocks that give a coin
CoinCounts == {0, 98, 99}

CoinCheckpoints ==
  { Checkpoint(1, Level1Play, Standing(497, 272, "small", 0), {"ArrowLeft"}, 3, c,
               LEVEL_TIME - 1200) : c \in CoinCounts }
  \cup
  { Checkpoint(1, Level1Play, UnderBlock(1206, "small"), {}, 3, c, LEVEL_TIME - 1200) :
      c \in CoinCounts \ {0} }
  \cup
  { Checkpoint(2, Level2Play, UnderBlock(134, "small"), {}, 3, c, LEVEL_TIME - 1200) :
      c \in CoinCounts \ {0} }

\* an item k frames after its push (lines 1169-1171), still in the air; its
\* vx is negated in each frame it is on a solid (lines 1179-1183), so where
\* it is along x is given
InFlight(item, k, x, vx) ==
  [item EXCEPT !.x = x, !.vx = vx,
               !.vy = item.vy + k * GRAVITY,
               !.y = item.y + k * item.vy + GRAVITY * ((k * (k + 1)) \div 2)]

\* the frame after a hit from below on a block whose lower edge is at
\* y = 304 (lines 843-844), the player moving right
Bumped(x, t) ==
  [Tier(InitialMario, t) EXCEPT !.x = x, !.y = P(304), !.vx = MARIO_SPEED, !.vy = P(3)]

\* World 1-1, frame 136 of a play that holds Space under the block at 352:
\* the block was hit 14 frames ago, its Mushroom is falling back through
\* it, and the player has just hit the block, now a brick, a second time
MushroomFalling ==
  Append([Level1Play EXCEPT ![62].type = "brick"],
         InFlight(SpawnItem("mushroom", Level1Play[62]), 14, 36400, -150))

GrowthCheckpoints ==
  { Checkpoint(1, MushroomFalling, Bumped(34089, t), {"Space"}, 3, 0, LEVEL_TIME - 136) :
      t \in {"small", "big"} }

\* k frames after the shot of lines 801-820, nothing in the way
Flown(f, k) ==
  [f EXCEPT !.x = f.x + k * f.vx,
            !.vy = f.vy + k * MulFrac(GRAVITY, 3, 10),
            !.y = f.y + k * f.vy + MulFrac(GRAVITY, 3, 10) * ((k * (k + 1)) \div 2)]

\* World 1-1: a Fire player has shot from the floor at x = 200, and the
\* fireball is one frame from its first bounce
FireballCheckpoints ==
  { Checkpoint(1, Append(Level1Play, Flown(NewFireball(Standing(200, FLOOR_Y, "fire", 0)), 23)),
               Standing(200, FLOOR_Y, "fire", 0), {}, 3, 0, LEVEL_TIME - 600) }

\* the same fireball four frames after the shot, two Goombas walking up side
\* by side from the right; and 51 frames after the shot, one frame before
\* its third bounce at x = 600, the third Goomba having just turned at the
\* pipe there
FireballOnGoombas ==
  { Checkpoint(1, Append(Place(Place(Level1Play, 74, 229, -1), 75, 231, -1),
                         Flown(NewFireball(Standing(200, FLOOR_Y, "fire", 0)), 4)),
               Standing(200, FLOOR_Y, "fire", 0), {}, 3, 0, LEVEL_TIME - 600),
    Checkpoint(1, Append(Place(Level1Play, 76, 587, -1),
                         [NewFireball(Standing(200, FLOOR_Y, "fire", 0)) EXCEPT
                            !.x = 59200, !.y = 35990, !.vy = 80, !.bounce = 1]),
               Standing(200, FLOOR_Y, "fire", 0), {}, 3, 0, LEVEL_TIME - 600) }

\* the player's box on the Flag's
FlagCheckpoints ==
  { Checkpoint(1, Level1Play, Standing(1505, FLOOR_Y, "small", 0), {}, 3, 0,
               LEVEL_TIME - 3000),
    Checkpoint(2, Level2Play, Standing(1905, FLOOR_Y, "small", 0), {}, 3, 0,
               LEVEL_TIME - 3000) }

\* World 1-1: a Fire player standing at x = 200 has shot the first Goomba
\* as it came up; the fireball hit it in its fifth frame, 24 from the
\* player, and both are inactive from then on; the X key is still down
FireballSpent ==
  Append([Place(Level1Play, 74, 228, -1) EXCEPT ![74].active = FALSE],
         [Flown(NewFireball(Standing(200, FLOOR_Y, "fire", 0)), 5) EXCEPT !.active = FALSE])

SpentFireballCheckpoints ==
  { Checkpoint(1, FireballSpent, Standing(200, FLOOR_Y, "fire", 0), {"KeyX"}, 3, 0,
               LEVEL_TIME - 600) }

\* a Fire player standing at x = 200 has held the X key since the shot: the
\* fireball is k frames on its way, 64 from the player after 10 frames and
\* 104 after 15
HeldShotCheckpoints ==
  { Checkpoint(1, Append(Level1Play, Flown(NewFireball(Standing(200, FLOOR_Y, "fire", 0)), k)),
               Standing(200, FLOOR_Y, "fire", 0), {"KeyX"}, 3, 0, LEVEL_TIME - 600) :
      k \in {10, 15} }

\* the same with one life left and the countdown about to run out
LastFrameFlagCheckpoints ==
  { Checkpoint(1, Level1Play, Standing(1505, FLOOR_Y, "small", 0), {}, 1, 0, 1),
    Checkpoint(2, Level2Play, Standing(1905, FLOOR_Y, "small", 0), {}, 1, 0, 1) }

Checkpoints ==
  GoombaCheckpoints \cup Level1BlockCheckpoints \cup Level2BlockCheckpoints
    \cup UsedBlockCheckpoints \cup TimeCheckpoints \cup PiranhaCheckpoints
    \cup KoopaCheckpoints \cup ItemCheckpoints \cup CoinCheckpoints \cup FlagCheckpoints
    \cup FireballCheckpoints \cup GrowthCheckpoints \cup LastFrameFlagCheckpoints
    \cup SpentFireballCheckpoints \cup FireballOnGoombas \cup HeldShotCheckpoints

Loaded(c) ==
  /\ mario = c.mario
  /\ objects = c.objects
  /\ score = 0
  /\ lives = c.lives
  /\ coins = c.coins
  /\ gameRunning = TRUE
  /\ gameWon = FALSE
  /\ gameOver = FALSE
  /\ keys = c.keys
  /\ currentLevel = c.level
  /\ time = c.time
  /\ pending = 0
  /\ log = << >>
  /\ nTicks = 0
  /\ nKeys = 0

Init == Constructed \/ \E c \in Checkpoints : Loaded(c)

\* one animation frame: gameLoop's updater applied to the state
Tick ==
  /\ gameRunning
  /\ nTicks < MaxTicks
  /\ \E W \in {gameLoop(World(rnd), keys) : rnd \in RandomSpawns} :
           /\ mario' = W.mario
           /\ objects' = W.objects
           /\ score' = W.score
           /\ lives' = W.lives
           /\ coins' = W.coins
           /\ gameRunning' = W.gameRunning
           /\ gameWon' = W.gameWon
           /\ gameOver' = W.gameOver
           /\ time' = W.time
           /\ pending' = W.pending
           /\ log' = W.ev
  /\ nTicks' = nTicks + 1
  /\ UNCHANGED << keys, currentLevel, nKeys >>

\* the Start that leaves the player's tier and invincibility as they are
startGameKeepsTier ==
  /\ ~gameRunning
  /\ objects' = Level1Objects
  /\ mario' = [mario EXCEPT !.x = P(50), !.y = P(300), !.vx = 0, !.vy = 0,
                            !.grounded = FALSE]
  /\ score' = 0
  /\ coins' = 0
  /\ gameRunning' = TRUE
  /\ gameWon' = FALSE
  /\ gameOver' = FALSE
  /\ keys' = {}
  /\ currentLevel' = 1
  /\ time' = LEVEL_TIME
  /\ log' = << >>
  /\ UNCHANGED << lives, pending, nTicks, nKeys >>

\* startGame, lines 1626-1629, through initializeLevel, lines 183-262; the
\* button is disabled while the game runs (line 1652)
startGame ==
  /\ ~gameRunning
  /\ objects' = Level1Objects
  /\ mario' = [mario EXCEPT !.x = P(50), !.y = P(300), !.vx = 0, !.vy = 0,
                            !.grounded = FALSE, !.big = FALSE, !.fire = FALSE,
                            !.width = P(20), !.height = P(20), !.invincible = 0]
  /\ score' = 0
  /\ coins' = 0
  /\ gameRunning' = TRUE
  /\ gameWon' = FALSE
  /\ gameOver' = FALSE
  /\ keys' = {}
  /\ currentLevel' = 1
  /\ time' = LEVEL_TIME
  /\ log' = << >>
  /\ UNCHANGED << lives, pending, nTicks, nKeys >>

\* the Reset that leaves the lives as they are
resetGameKeepsLives ==
  /\ gameRunning' = FALSE
  /\ gameWon' = FALSE
  /\ gameOver' = FALSE
  /\ score' = 0
  /\ coins' = 0
  /\ currentLevel' = 1
  /\ time' = LEVEL_TIME
  /\ log' = << >>
  /\ UNCHANGED << mario, objects, keys, pending, nTicks, nKeys, lives >>

\* resetGame, lines 1631-1643
resetGame ==
  /\ gameRunning' = FALSE
  /\ gameWon' = FALSE
  /\ gameOver' = FALSE
  /\ lives' = 3
  /\ score' = 0
  /\ coins' = 0
  /\ currentLevel' = 1
  /\ time' = LEVEL_TIME
  /\ log' = << >>
  /\ UNCHANGED << mario, objects, keys, pending, nTicks, nKeys >>

\* the timer set at line 1438 fires: initializeWorld2, lines 265-387
initializeWorld2 ==
  /\ pending > 0
  /\ pending' = pending - 1
  /\ objects' = Level2Objects
  /\ mario' = [mario EXCEPT !.x = P(50), !.y = P(300), !.vx = 0, !.vy = 0,
                            !.grounded = FALSE]
  /\ gameRunning' = TRUE
  /\ currentLevel' = 2
  /\ time' = LEVEL_TIME
  /\ log' = << >>
  /\ UNCHANGED << score, lives, coins, gameWon, gameOver, keys, nTicks, nKeys >>

\* lines 1600-1608; a repeated keydown leaves the set as it is
handleKeyDown ==
  \E k \in KeyCodes \ keys :
    /\ nKeys < MaxKeyEvents
    /\ nKeys' = nKeys + 1
    /\ keys' = keys \cup {k}
    /\ log' = << >>
    /\ UNCHANGED << mario, objects, score, lives, coins, gameRunning, gameWon,
                    gameOver, currentLevel, time, pending, nTicks >>

\* lines 1610-1615
handleKeyUp ==
  \E k \in keys :
    /\ nKeys < MaxKeyEvents
    /\ nKeys' = nKeys + 1
    /\ keys' = keys \ {k}
    /\ log' = << >>
    /\ UNCHANGED << mario, objects, score, lives, coins, gameRunning, gameWon,
                    gameOver, currentLevel, time, pending, nTicks >>

Next ==
  \/ Tick
  \/ startGame
  \/ resetGame
  \/ initializeWorld2
  \/ handleKeyDown
  \/ handleKeyUp

Spec == Init /\ [][Next]_vars

(***************************************************************************)
(* The flight of one fireball to its end: the frames that follow a shot,   *)
(* with no key held, up to MaxFlight frames.                               *)
(***************************************************************************)
MaxFlight == 130

\* the level with the fireball the player m has just shot (lines 806-817)
Shot(objs, m) == Append(objs, NewFireball(m))

\* a Fire player has shot: from the floor of World 1-1 to the right with no
\* enemy ahead, at a Goomba walking up, to the left next to the level's left
\* edge, from the
\* top of a jump off the block at 352, and to the right in front of the
\* Flag of World 1-2
FlightCheckpoints ==
  { Checkpoint(1, Shot(Place(Level1Play, 74, 40, -1), Standing(1420, FLOOR_Y, "fire", 0)),
               Standing(1420, FLOOR_Y, "fire", 0), {}, 3, 0, LEVEL_TIME - 600),
    Checkpoint(1, Shot(Place(Level1Play, 74, 233, -1), Standing(200, FLOOR_Y, "fire", 0)),
               Standing(200, FLOOR_Y, "fire", 0), {}, 3, 0, LEVEL_TIME - 600),
    Checkpoint(1, Shot(Level1Play, [Standing(40, FLOOR_Y, "fire", 0) EXCEPT !.vx = -MARIO_SPEED]),
               [Standing(40, FLOOR_Y, "fire", 0) EXCEPT !.vx = -MARIO_SPEED], {}, 3, 0,
               LEVEL_TIME - 600),
    Checkpoint(1, Shot(Level1Play, Jumped(Standing(358, 272, "fire", 0), 20)),
               Jumped(Standing(358, 272, "fire", 0), 20), {}, 3, 0, LEVEL_TIME - 600),
    Checkpoint(2, Shot(Place(Level2Play, 197, 40, -1), Standing(1870, FLOOR_Y, "fire", 0)),
               Standing(1870, FLOOR_Y, "fire", 0), {}, 3, 0, LEVEL_TIME - 600) }

InitFlight == \E c \in FlightCheckpoints : Loaded(c)

\* one animation frame, as Tick, within the longer run
FlightTick ==
  /\ gameRunning
  /\ nTicks < MaxFlight
  /\ \E W \in {gameLoop(World(rnd), keys) : rnd \in RandomSpawns} :
           /\ mario' = W.mario
           /\ objects' = W.objects
           /\ score' = W.score
           /\ lives' = W.lives
           /\ coins' = W.coins
           /\ gameRunning' = W.gameRunning
           /\ gameWon' = W.gameWon
           /\ gameOver' = W.gameOver
           /\ time' = W.time
           /\ pending' = W.pending
           /\ log' = W.ev
  /\ nTicks' = nTicks + 1
  /\ UNCHANGED << keys, currentLevel, nKeys >>

NextFlight == FlightTick

FlightSpec == InitFlight /\ [][NextFlight]_vars

(***************************************************************************)
(* The Elevator's callback of the behavior pass by itself, applied to a    *)
(* grounded player whose feet are in the Elevator's box.                   *)
(***************************************************************************)
Elevators == {i \in 1 .. Len(Level2Play) : Level2Play[i].type = "elevator"}

\* an Elevator somewhere on its way: at a bound it has already turned
ElevatorAt(i, y, dir) == [Level2Play EXCEPT ![i].y = P(y), ![i].vy = dir * P(1)]

CarryInputs ==
  { [i |-> i, y |-> y, dir |-> dir, t |-> t, d |-> d] :
      i \in Elevators, y \in {240, 241, 242, 280, 318, 319, 320}, dir \in {-1, 1},
      t \in Tiers, d \in {2, 4} }

\* the player at rest with the feet d below the Elevator's upper edge
InitCarry ==
  \E c \in CarryInputs :
    /\ ~(c.y = 240 /\ c.dir = -1) /\ ~(c.y = 320 /\ c.dir = 1)
    /\ Loaded(Checkpoint(2, ElevatorAt(c.i, c.y, c.dir),
                         Standing(Level2Play[c.i].x \div Unit + 20, c.y + c.d, c.t, 0),
                         {}, 3, 0, LEVEL_TIME - 900))

\* lines 1148-1163 for one Elevator
CarryStep ==
  /\ gameRunning
  /\ nTicks < MaxTicks
  /\ \E i \in Elevators :
       LET W == BehaveElevator(World("coin"), i)
       IN  /\ mario' = W.mario
           /\ objects' = W.objects
           /\ log' = W.ev
  /\ nTicks' = nTicks + 1
  /\ UNCHANGED << score, lives, coins, gameRunning, gameWon, gameOver, keys,
                  currentLevel, time, pending, nKeys >>

NextCarry == CarryStep

CarrySpec == InitCarry /\ [][NextCarry]_vars

(***************************************************************************)
(* The approach to the Flag: the player next to it, on the floor, in the   *)
(* air, on the last pipe and on the Flag's top, with the keys that take    *)
(* it to the Flag held for MaxApproach frames.                             *)
(***************************************************************************)
MaxApproach == 60

ApproachCheckpoints ==
  { Checkpoint(1, Level1Play, Standing(x, FLOOR_Y, t, 0), ks, 3, 0, LEVEL_TIME - 3000) :
      x \in {1440, 1442}, t \in {"small", "big"},
      ks \in {{"ArrowRight"}, {"ArrowRight", "Space"}} }
  \cup
  { Checkpoint(1, Level1Play, Standing(1560, FLOOR_Y, t, 0), ks, 3, 0, LEVEL_TIME - 3000) :
      t \in {"small", "big"}, ks \in {{"ArrowLeft"}, {"ArrowLeft", "Space"}} }
  \cup
  { Checkpoint(1, Level1Play, Standing(1386, 208, "small", 0), {"ArrowRight", "Space"}, 3, 0,
               LEVEL_TIME - 3000),
    Checkpoint(1, Level1Play, Standing(1506, 200, "small", 0), {}, 3, 0, LEVEL_TIME - 3000),
    Checkpoint(1, Level1Play, Standing(1510, 200, "big", 0), {"ArrowRight"}, 3, 0,
               LEVEL_TIME - 3000),
    Checkpoint(1, Level1Play, Standing(1502, 200, "small", 0), {"ArrowLeft"}, 3, 0,
               LEVEL_TIME - 3000),
    Checkpoint(2, Level2Play, Standing(1850, FLOOR_Y, "small", 0), {"ArrowRight"}, 3, 0,
               LEVEL_TIME - 3000),
    Checkpoint(2, Level2Play, Standing(1850, FLOOR_Y, "big", 0), {"ArrowRight", "Space"}, 3, 0,
               LEVEL_TIME - 3000) }

InitApproach == \E c \in ApproachCheckpoints : Loaded(c)

ApproachTick ==
  /\ gameRunning
  /\ nTicks < MaxApproach
  /\ \E W \in {gameLoop(World(rnd), keys) : rnd \in RandomSpawns} :
           /\ mario' = W.mario
           /\ objects' = W.objects
           /\ score' = W.score
           /\ lives' = W.lives
           /\ coins' = W.coins
           /\ gameRunning' = W.gameRunning
           /\ gameWon' = W.gameWon
           /\ gameOver' = W.gameOver
           /\ time' = W.time
           /\ pending' = W.pending
           /\ log' = W.ev
  /\ nTicks' = nTicks + 1
  /\ UNCHANGED << keys, currentLevel, nKeys >>

NextApproach == ApproachTick

ApproachSpec == InitApproach /\ [][NextApproach]_vars

(***************************************************************************)
(* The last frames of a countdown: the game under the frame loop, which    *)
(* runs a frame as long as the game is running, with the keys changing.    *)
(***************************************************************************)
MaxLive == 4

\* a game started again after game over has no life left (lines 236-261)
StartedWithoutLives ==
  { Checkpoint(1, Level1Play, Standing(50, FLOOR_Y, "small", 0), {}, 0, 0, LEVEL_TIME - 1) }

LiveCheckpoints ==
  { [c EXCEPT !.time = tm] :
      c \in GoombaCheckpoints \cup TimeCheckpoints \cup ItemCheckpoints \cup CoinCheckpoints
               \cup StartedWithoutLives,
      tm \in 1 .. MaxLive - 1 }

InitLive == \E c \in LiveCheckpoints : Loaded(c)

LiveTick ==
  /\ gameRunning
  /\ nTicks < MaxLive
  /\ \E W \in {gameLoop(World(rnd), keys) : rnd \in RandomSpawns} :
           /\ mario' = W.mario
           /\ objects' = W.objects
           /\ score' = W.score
           /\ lives' = W.lives
           /\ coins' = W.coins
           /\ gameRunning' = W.gameRunning
           /\ gameWon' = W.gameWon
           /\ gameOver' = W.gameOver
           /\ time' = W.time
           /\ pending' = W.pending
           /\ log' = W.ev
  /\ nTicks' = nTicks + 1
  /\ UNCHANGED << keys, currentLevel, nKeys >>

NextLive ==
  \/ LiveTick
  \/ handleKeyDown
  \/ handleKeyUp

\* a step that runs a frame: LiveTick is the one action that counts one,
\* and it can be taken whenever its two guards hold
FrameRuns == gameRunning /\ nTicks < MaxLive /\ nTicks' = nTicks + 1

\* requestAnimationFrame calls gameLoop again after every frame of a
\* running game (lines 1580-1596)
LiveSpec == InitLive /\ [][NextLive]_vars /\ WF_nTicks(FrameRuns)

(***************************************************************************)
(* Properties.  log holds the steps of the last frame: log[1] is the       *)
(* frame's beginning, and every contact, hit and death is a record with    *)
(* the state before it (pre), after it (post) and the object it is about   *)
(* (opre, opost).                                                          *)
(***************************************************************************)
Events == 1 .. Len(log)

\* Small 0, Big 1, Fire 2
Rank(s) == IF s.fire THEN 2 ELSE IF s.big THEN 1 ELSE 0

SameTier(e) ==
  /\ e.post.big = e.pre.big
  /\ e.post.fire = e.pre.fire
  /\ e.post.height = e.pre.height

\* a step of the interaction pass on a Goomba, a Koopa or a Piranha the
\* player's box overlaps
IsEnemyContact(e) ==
  /\ e.kind \in {"invincibleKill", "stomp", "kick", "damage", "touch"}
  /\ e.opre.type \in {"goomba", "koopa", "piranha"}

\* C1: within one tick enemy contact lowers the tier by at most one step,
\* however many enemies overlap the player: a contact that lowers it takes
\* Fire to Big or Big to Small and costs no life, at most one contact of the
\* tick lowers it, and a contact takes a life only from a Small player.
C1_OneStepPerTick ==
  /\ \A i \in Events :
       IsEnemyContact(log[i]) =>
         /\ Rank(log[i].post) \in {Rank(log[i].pre), Rank(log[i].pre) - 1}
         /\ Rank(log[i].post) < Rank(log[i].pre) => log[i].post.lives = log[i].pre.lives
         /\ log[i].post.lives # log[i].pre.lives =>
              Rank(log[i].pre) = 0 /\ log[i].post.lives = log[i].pre.lives - 1
  /\ Cardinality({i \in Events : IsEnemyContact(log[i])
                                   /\ Rank(log[i].post) < Rank(log[i].pre)}) <= 1

\* a Fire player was hit by one enemy and touched a second in the same tick
C1_Witness ==
  \E i, j \in Events :
    /\ i < j
    /\ IsEnemyContact(log[i]) /\ Rank(log[i].pre) = 2 /\ Rank(log[i].post) = 1
    /\ IsEnemyContact(log[j]) /\ log[j].idx # log[i].idx

\* C2: a contact with a Goomba, a Koopa (walking or shelled) or a Piranha
\* made while invincible > 0 changes neither big, fire, height nor lives.
C2_InvincibleUnharmed ==
  \A i \in Events :
    (IsEnemyContact(log[i]) /\ log[i].pre.invincible > 0) =>
      SameTier(log[i]) /\ log[i].post.lives = log[i].pre.lives

\* an invincible Big player touched a Piranha
C2_Witness ==
  \E i \in Events :
    /\ IsEnemyContact(log[i])
    /\ log[i].opre.type = "piranha"
    /\ log[i].pre.invincible > 0
    /\ Rank(log[i].pre) = 1

\* a step of the model that is one frame of gameLoop
TickStep == nTicks' = nTicks + 1

Damaged(l) ==
  \E i \in 1 .. Len(l) : IsEnemyContact(l[i]) /\ Rank(l[i].post) < Rank(l[i].pre)

Picked(l, subs) ==
  \E i \in 1 .. Len(l) : l[i].kind = "pickup" /\ l[i].sub \in subs

\* the changes of tier the ladder allows across one frame
LadderStep ==
  \/ Rank(mario') = Rank(mario) - 1 /\ Damaged(log')
  \/ Rank(mario) = 0 /\ Rank(mario') = 1 /\ Picked(log', {"mushroom", "fireflower"})
  \/ Rank(mario) = 1 /\ Rank(mario') = 2 /\ Picked(log', {"fireflower"})

\* C3 as stated: every change of tier from one tick to the next while the
\* game runs is one step down by damage, Small to Big by a Mushroom or a
\* Fire Flower, or Big to Fire by a Fire Flower.
C3_LadderOnly ==
  [][(gameRunning /\ TickStep /\ Rank(mario') # Rank(mario)) => LadderStep]_vars

\* the respawn of a death that is not an enemy's (time up, fall) resets the tier
ResetBySpawn ==
  /\ Rank(mario') = 0
  /\ \E i \in 1 .. Len(log') : log'[i].kind = "death" /\ log'[i].post.lives > 0

\* a growth pickup and a further Fire Flower taken in the same frame
TwoPickups ==
  /\ Rank(mario) = 0 /\ Rank(mario') = 2
  /\ \E i, j \in 1 .. Len(log') :
       /\ i # j
       /\ log'[i].kind = "pickup" /\ log'[i].sub \in {"mushroom", "fireflower"}
       /\ log'[j].kind = "pickup" /\ log'[j].sub = "fireflower"

\* C3 amended: every change of tier from one tick to the next while the game
\* runs is a step of the ladder, or the reset to Small of the respawn after
\* the countdown runs out (or a fall), or Small to Fire by a growth pickup
\* and a Fire Flower taken in the same tick.
C3_LadderOrReset ==
  [][(gameRunning /\ TickStep /\ Rank(mario') # Rank(mario)) =>
       (LadderStep \/ ResetBySpawn \/ TwoPickups)]_vars

\* the countdown ran out on a Fire player, who respawned Small
C3_Witness ==
  /\ Len(log) > 0
  /\ Rank(log[1].pre) = 2
  /\ Rank(mario) = 0
  /\ \E i \in Events : log[i].kind = "death" /\ log[i].sub = "timeUp"

\* C4: a contact that damages a Small player takes exactly one life; if the
\* lives left are <= 0 the game is over and not running and the player stays
\* where it was; otherwise the player is at (50, 300) with vx = vy = 0 and
\* invincible = 180, and the game is still running.
C4_SmallLosesLife ==
  \A i \in Events :
    (IsEnemyContact(log[i]) /\ log[i].kind = "damage" /\ Rank(log[i].pre) = 0) =>
      /\ log[i].pre.invincible = 0
      /\ log[i].post.lives = log[i].pre.lives - 1
      /\ IF log[i].post.lives <= 0
           THEN /\ log[i].post.gameOver /\ ~log[i].post.gameRunning
                /\ log[i].post.x = log[i].pre.x /\ log[i].post.y = log[i].pre.y
                /\ log[i].post.vx = log[i].pre.vx /\ log[i].post.vy = log[i].pre.vy
                /\ log[i].post.invincible = log[i].pre.invincible
           ELSE /\ log[i].post.x = P(50) /\ log[i].post.y = P(300)
                /\ log[i].post.vx = 0 /\ log[i].post.vy = 0
                /\ log[i].post.invincible = 180
                /\ log[i].post.gameRunning /\ ~log[i].post.gameOver

\* a Small player with one life left was hit: game over, no respawn
C4_Witness ==
  \E i \in Events :
    /\ IsEnemyContact(log[i]) /\ log[i].kind = "damage"
    /\ Rank(log[i].pre) = 0 /\ log[i].pre.lives = 1
    /\ gameOver /\ ~gameRunning

\* C5: a contact of a non-invincible player with a Goomba, the player moving
\* down (vy > 0) with y < goomba.y - 5, deactivates the Goomba, sets vy to
\* JUMP_FORCE / 2 (negative), adds exactly 100 to the score and changes
\* neither tier nor lives.
C5_Stomp ==
  \A i \in Events :
    ( /\ IsEnemyContact(log[i]) /\ log[i].opre.type = "goomba" /\ log[i].opre.active
      /\ log[i].pre.invincible = 0
      /\ log[i].pre.vy > 0
      /\ log[i].pre.y < log[i].opre.y - P(5) ) =>
      /\ ~log[i].opost.active
      /\ log[i].post.vy = JUMP_FORCE \div 2 /\ log[i].post.vy < 0
      /\ log[i].post.score = log[i].pre.score + 100
      /\ SameTier(log[i]) /\ log[i].post.lives = log[i].pre.lives

\* a Big player came down on a Goomba
C5_Witness ==
  \E i \in Events :
    /\ log[i].kind = "stomp" /\ log[i].opre.type = "goomba"
    /\ log[i].pre.vy > 0 /\ log[i].pre.y < log[i].opre.y - P(5)
    /\ Rank(log[i].pre) = 1

LevelObjects(level) == IF level = 1 THEN Level1Objects ELSE Level2Objects

\* objects[i] is one of the level's question blocks, converted or not
WasQuestion(i) ==
  /\ i \in 1 .. Len(LevelObjects(currentLevel))
  /\ LevelObjects(currentLevel)[i].type = "block"

\* C7: across the frames of a level nothing becomes a question block; a
\* question block that changes becomes a brick, by one hit that pushes one
\* item; and no step on a block that was a brick already pushes anything.
C7_ConvertOnce ==
  [][TickStep =>
       /\ \A i \in 1 .. Len(objects') :
            objects'[i].type = "block" => (i <= Len(objects) /\ objects[i].type = "block")
       /\ \A i \in 1 .. Len(objects) :
            (objects[i].type = "block" /\ objects'[i].type # "block") =>
              /\ objects'[i].type = "brick"
              /\ Cardinality({k \in 1 .. Len(log') :
                                log'[k].kind = "hitQuestion" /\ log'[k].idx = i}) = 1
       /\ \A k \in 1 .. Len(log') :
            /\ log'[k].kind = "hitQuestion" =>
                 /\ objects[log'[k].idx].type = "block"
                 /\ objects'[log'[k].idx].type = "brick"
            /\ (WasQuestion(log'[k].idx) /\ objects[log'[k].idx].type = "brick") =>
                 /\ log'[k].kind # "hitQuestion"
                 /\ log'[k].post.nobj = log'[k].pre.nobj]_vars

\* a converted block was hit from below again
C7_Witness ==
  \E i \in Events :
    /\ log[i].kind = "hitBrick"
    /\ WasQuestion(log[i].idx)
    /\ log[i].opre.type = "brick"

ItemTypes == {"coin", "mushroom", "oneup", "fireflower", "starman"}

\* C8: each hit from below on a question block appends exactly one object,
\* and its type is coin, mushroom, oneup, fireflower or starman.
C8_OneItemPerHit ==
  \A i \in Events :
    log[i].kind = "hitQuestion" =>
      /\ log[i].opre.type = "block"
      /\ log[i].post.nobj = log[i].pre.nobj + 1
      /\ Len(objects) >= log[i].post.nobj
      /\ objects[log[i].post.nobj].type \in ItemTypes

\* a Fire player hit a power-up block of World 1-2 and a 1-Up came out
C8_Witness ==
  \E i \in Events :
    /\ log[i].kind = "hitQuestion"
    /\ currentLevel = 2
    /\ Rank(log[i].pre) = 2
    /\ objects[log[i].post.nobj].type = "oneup"

\* C9: a brick hit from below ends inactive and broken exactly when the
\* player is Big or Fire, and a Small player's hit leaves it active, solid
\* and unbroken; a broken brick stays as it is and no later step of the
\* resolver or of the interaction pass is on it.
C9_BrickBreak ==
  [][TickStep =>
       /\ \A k \in 1 .. Len(log') :
            log'[k].kind = "hitBrick" =>
              /\ log'[k].opre.type = "brick"
              /\ (~log'[k].opost.active /\ log'[k].opost.broken) <=> Rank(log'[k].pre) >= 1
              /\ Rank(log'[k].pre) = 0 =>
                   /\ log'[k].opost.active /\ log'[k].opost.solid
                   /\ ~log'[k].opost.broken
       /\ \A j \in 1 .. Len(objects) :
            objects[j].broken =>
              /\ objects'[j] = objects[j]
              /\ ~objects[j].active
              /\ \A k \in 1 .. Len(log') : log'[k].idx # j]_vars

\* after a frame the player's box is on a broken brick's
C9_Witness ==
  /\ nTicks > 0
  /\ \E j \in 1 .. Len(objects) : objects[j].broken /\ checkCollision(mario, objects[j])

IsPickup(e, sub) == e.kind = "pickup" /\ e.sub = sub

\* C11: a Fire Flower pickup makes a Small player Big and not Fire, a Big
\* player Fire, leaves a Fire player Fire, and in every case deactivates the
\* flower and adds 1000 to the score.
C11_FireFlower ==
  \A i \in Events :
    IsPickup(log[i], "fireflower") =>
      /\ log[i].opre.type = "fireflower" /\ log[i].opre.active
      /\ ~log[i].opost.active
      /\ log[i].post.score = log[i].pre.score + 1000
      /\ Rank(log[i].pre) = 0 => (log[i].post.big /\ ~log[i].post.fire)
      /\ Rank(log[i].pre) >= 1 => (log[i].post.big /\ log[i].post.fire)

\* a Small player picked up a Fire Flower
C11_Witness ==
  \E i \in Events :
    /\ IsPickup(log[i], "fireflower")
    /\ Rank(log[i].pre) = 0
    /\ Rank(log[i].post) = 1

\* objects[i] begins the frame as an active kicked shell
IsMovingShell(o) == o.type = "koopa" /\ o.active /\ o.shell /\ o.vx # 0

\* the Goombas and Koopas the shell objects[i] overlaps after its move of
\* this frame: the objects before it in the array have moved already
ShellTargets(i) ==
  LET moved == [objects[i] EXCEPT !.x = objects[i].x + objects[i].vx]
  IN  {k \in (1 .. Len(objects)) \ {i} :
         /\ objects[k].active
         /\ objects[k].type \in {"goomba", "koopa"}
         /\ checkCollision(moved, IF k < i THEN objects'[k] ELSE objects[k])}

\* C12: in each frame an active kicked shell that reaches its turn of the
\* behavior pass deactivates every active Goomba and other Koopa it overlaps
\* after its move, each for 100 points, wherever the player is.
C12_ShellKills ==
  [][TickStep =>
       \A i \in 1 .. Len(objects) :
         ( /\ IsMovingShell(objects[i])
           /\ \A n \in 1 .. Len(log') : ~(log'[n].kind = "shellKill" /\ log'[n].idx = i) ) =>
           \A k \in ShellTargets(i) :
             /\ ~objects'[k].active
             /\ \E n \in 1 .. Len(log') :
                  /\ log'[n].kind = "shellKill" /\ log'[n].idx = k
                  /\ log'[n].post.score = log'[n].pre.score + 100]_vars

\* a shell killed a Goomba more than 200 away from the player
C12_Witness ==
  \E n \in Events :
    /\ log[n].kind = "shellKill"
    /\ log[n].opre.type = "goomba"
    /\ Abs(log[n].opre.x - log[n].pre.x) > P(200)
    /\ ~objects[log[n].idx].active

\* the entities gravity acts on: the items blocks push, fireballs, and the
\* coins that blocks push
HasGravity(o) ==
  \/ o.type \in {"mushroom", "oneup", "starman", "fireflower", "fireball"}
  \/ o.type = "coin" /\ o.hasVy

\* C13: the player and every active entity with gravity have their lower
\* edge at or above the floor plane, y + height <= 368.
C13_AboveFloor ==
  /\ mario.y + mario.height <= P(FLOOR_Y)
  /\ \A i \in 1 .. Len(objects) :
       (objects[i].active /\ HasGravity(objects[i])) =>
         objects[i].y + objects[i].height <= P(FLOOR_Y)

\* a frame in which a fireball came down on the floor and bounced, the
\* player standing on the floor
C13_Witness ==
  /\ nTicks > 0
  /\ mario.y + mario.height = P(FLOOR_Y)
  /\ \E i \in 1 .. Len(objects) :
       /\ objects[i].type = "fireball" /\ objects[i].active
       /\ objects[i].bounce = 2
       /\ objects[i].y + objects[i].height = P(FLOOR_Y)

\* C14 as stated: after every frame the player's box overlaps no active,
\* unbroken solid object.
C14_NoOverlap ==
  nTicks > 0 =>
    \A i \in 1 .. Len(objects) :
      IsLiveSolid(objects[i]) => ~checkCollision(mario, objects[i])

StartStep == ~gameRunning /\ gameRunning' /\ pending' = pending

\* C16: Start yields level 1 with the list of initializeLevel, a running
\* game that is neither won nor over, score 0, coins 0, time 400, and a
\* Small player at (50, 300) with vx = vy = 0 and invincible = 0.
C16_Start ==
  [][StartStep =>
       /\ currentLevel' = 1 /\ objects' = Level1Objects
       /\ gameRunning' /\ ~gameWon' /\ ~gameOver'
       /\ score' = 0 /\ coins' = 0 /\ time' = LEVEL_TIME
       /\ ~mario'.big /\ ~mario'.fire
       /\ mario'.width = P(20) /\ mario'.height = P(20)
       /\ mario'.x = P(50) /\ mario'.y = P(300)
       /\ mario'.vx = 0 /\ mario'.vy = 0
       /\ mario'.invincible = 0]_vars

\* the game was started again after a game over: it runs, with the lives
\* the last game ended on
C16_Witness ==
  /\ gameRunning /\ ~gameOver
  /\ lives <= 0
  /\ objects = Level1Objects
  /\ mario.x = P(50) /\ mario.y = P(300)

\* a step that is a Reset: it is no frame and no key event and leaves the
\* game not running
ResetStep == ~gameRunning' /\ nTicks' = nTicks /\ keys' = keys

\* C17: Reset yields a game that is not running, not won and not over,
\* with lives 3, score 0, coins 0, level 1 and time 400.
C17_Reset ==
  [][ResetStep =>
       /\ ~gameRunning' /\ ~gameWon' /\ ~gameOver'
       /\ lives' = 3 /\ score' = 0 /\ coins' = 0
       /\ currentLevel' = 1 /\ time' = LEVEL_TIME]_vars

\* Reset was pressed on a game of World 1-2 that had been played
C17_Witness ==
  /\ ~gameRunning /\ ~gameWon /\ ~gameOver
  /\ nTicks > 0
  /\ lives = 3 /\ score = 0 /\ currentLevel = 1 /\ time = LEVEL_TIME
  /\ Len(objects) >= Len(Level2Objects)

Purged(W) == [W EXCEPT !.objects = SelectSeq(W.objects, LAMBDA o : o.active)]

\* what the claim compares after a frame: the player, the score, the lives,
\* the coins and the set of active objects
Visible(W) ==
  [mario |-> W.mario, score |-> W.score, lives |-> W.lives, coins |-> W.coins,
   active |-> {W.objects[i] : i \in {k \in 1 .. Len(W.objects) : W.objects[k].active}}]

\* C19 as stated: a frame run on the world and a frame run on the world
\* without its inactive objects, with the same keys and the same random
\* draws, end with the same player, score, lives, coins and active objects.
C19_InactiveIgnored ==
  gameRunning =>
    \A rnd \in RandomSpawns :
      Visible(gameLoop(World(rnd), keys)) = Visible(gameLoop(Purged(World(rnd)), keys))

\* an event that sets the timer anew: a hit taken (120, or 180 with the
\* respawn), a death by fall or time-out (180), a Starman picked up (600)
IsGrant(e) == e.kind \in {"damage", "death"} \/ IsPickup(e, "starman")

\* C20: mario.invincible is always an integer in 0 .. 600 (never negative);
\* a frame in which no grant occurs lowers it by exactly 1 if it was positive
\* and leaves it at 0 otherwise, so that it strictly decreases down to 0 as
\* long as no grant occurs; a frame with a grant ends at the decremented
\* value or at one of 120, 180, 600.
C20_InvincibleTimer ==
  /\ [](mario.invincible \in 0 .. 600)
  /\ [][TickStep =>
          LET dec == IF mario.invincible > 0 THEN mario.invincible - 1 ELSE 0
          IN  IF \E n \in 1 .. Len(log') : IsGrant(log'[n])
                THEN mario'.invincible \in {dec, 120, 180, 600}
                ELSE mario'.invincible = dec]_vars

\* a frame without a grant took the timer from 1 to 0
C20_Witness ==
  /\ Len(log) > 0
  /\ log[1].kind = "tick" /\ log[1].pre.invincible = 1
  /\ \A n \in Events : ~IsGrant(log[n])
  /\ mario.invincible = 0

IsResolverStep(e) == e.kind \in {"collide", "hitQuestion", "hitBrick"}

\* the test of a hit from below, on the record of a resolver step and the
\* player's y at the start of the frame
FromBelow(e, prevY) ==
  /\ e.opre.type \in {"block", "brick"}
  /\ e.pre.vy < 0
  /\ prevY >= e.opre.y + e.opre.height - P(5)
  /\ e.pre.y <= e.opre.y + e.opre.height

\* C21: a step of the resolver on a question block or brick the player
\* overlaps with vy < 0, prevY >= bottom - 5 and y <= bottom is a hit from
\* below and nothing else: vy becomes 3, y the block's bottom edge, the
\* block interaction runs (a question block turns into a brick and pushes
\* its item, a brick breaks under a Big player), vx and grounded are left as
\* they were, and the frame has no generic collision step on that block.
C21_HitFromBelowOnly ==
  \A n \in Events :
    (IsResolverStep(log[n]) /\ FromBelow(log[n], log[1].pre.y)) =>
      /\ log[n].kind \in {"hitQuestion", "hitBrick"}
      /\ log[n].post.vy = P(3)
      /\ log[n].post.y = log[n].opre.y + log[n].opre.height
      /\ log[n].post.x = log[n].pre.x
      /\ log[n].post.vx = log[n].pre.vx
      /\ log[n].post.grounded = log[n].pre.grounded
      /\ log[n].opre.type = "block" =>
           (log[n].opost.type = "brick" /\ log[n].post.nobj = log[n].pre.nobj + 1)
      /\ (log[n].opre.type = "brick" /\ log[n].pre.big) => log[n].opost.broken
      /\ \A k \in Events : ~(log[k].kind = "collide" /\ log[k].idx = log[n].idx)

\* a player moving sideways hit a block from below and kept its vx
C21_Witness ==
  \E n \in Events :
    /\ IsResolverStep(log[n]) /\ FromBelow(log[n], log[1].pre.y)
    /\ log[n].pre.vx # 0
    /\ log[n].post.vx = log[n].pre.vx
    /\ log[n].post.vy = P(3)

C24_Level1Items ==
  [][(TickStep /\ currentLevel = 1) =>
       \A n \in 1 .. Len(log') :
         log'[n].kind = "hitQuestion" =>
           LET e    == log'[n]
               item == objects'[e.post.nobj].type
           IN  /\ e.post.nobj = e.pre.nobj + 1
               /\ e.opre.x = P(352) => item = "mushroom"
               /\ e.opre.x = P(768) =>
                    item = (IF e.pre.big /\ ~e.pre.fire THEN "fireflower" ELSE "mushroom")
               /\ e.opre.x \notin {P(352), P(768)} =>
                    item \in {"coin", "mushroom", "oneup"}]_vars

\* a Big player hit the block at 768 and a Fire Flower came out
C24_Witness ==
  \E n \in Events :
    /\ log[n].kind = "hitQuestion"
    /\ currentLevel = 1
    /\ log[n].opre.x = P(768)
    /\ log[n].pre.big /\ ~log[n].pre.fire
    /\ objects[log[n].post.nobj].type = "fireflower"

\* a step of the interaction pass on an active shelled Koopa at rest
IsRestingShellContact(e) ==
  /\ IsEnemyContact(e)
  /\ e.opre.type = "koopa" /\ e.opre.active
  /\ e.opre.shell /\ e.opre.vx = 0

\* the shell is kicked away from the player's side for 100 points, stays
\* active, and the player is not damaged
IsKick(e) ==
  /\ e.opost.vx = (IF e.pre.x < e.opre.x THEN P(8) ELSE -P(8))
  /\ e.opost.active
  /\ e.post.score = e.pre.score + 100
  /\ SameTier(e)
  /\ e.post.lives = e.pre.lives
  /\ e.post.invincible = e.pre.invincible

C26_OneEnemyPerFireball ==
  \A n \in Events :
    log[n].kind = "fireballKill" =>
      /\ log[n].sub = "live"
      /\ log[n].opre.active /\ ~log[n].opost.active
      /\ log[n].post.score = log[n].pre.score + 100

IsLiveFireball(o) == o.type = "fireball" /\ o.active

\* C27: every fireball is inactive within a bounded number of frames of its
\* spawn: in each frame an active fireball keeps its vx of +8 or -8 and
\* moves by it, and is active after the frame only inside [-50, 2000] and
\* with bounces left; none is active MaxFlight frames after the shot.
C27_FireballEnds ==
  /\ [](nTicks >= MaxFlight => \A i \in 1 .. Len(objects) : ~IsLiveFireball(objects[i]))
  /\ [][TickStep =>
          \A i \in 1 .. Len(objects) :
            IsLiveFireball(objects[i]) =>
              /\ Len(objects') >= i /\ objects'[i].type = "fireball"
              /\ objects[i].vx \in {P(8), -P(8)}
              /\ objects'[i].vx = objects[i].vx
              /\ objects'[i].x = objects[i].x + objects[i].vx
              /\ objects'[i].bounce \in {objects[i].bounce, objects[i].bounce - 1}
              /\ objects'[i].active =>
                   /\ objects'[i].x >= -P(50) /\ objects'[i].x <= P(2000)
                   /\ objects'[i].bounce >= 1]_vars

\* a fireball has left the level on the right with bounces left
C27_Witness ==
  \E i \in 1 .. Len(objects) :
    /\ objects[i].type = "fireball" /\ ~objects[i].active
    /\ objects[i].x > P(2000)
    /\ objects[i].bounce >= 1

IsOscillator(o) == o.type = "piranha" \/ (o.type = "elevator" /\ o.moving)

\* C28: every Piranha and every moving Elevator has minY <= y <= maxY and a
\* vy of -1 or +1 in every state, and a frame changes the vy of an active
\* one exactly when it ends with y at minY or at maxY.
C28_Oscillators ==
  /\ [](\A i \in 1 .. Len(objects) :
          IsOscillator(objects[i]) =>
            /\ objects[i].minY <= objects[i].y /\ objects[i].y <= objects[i].maxY
            /\ objects[i].vy \in {-P(1), P(1)})
  /\ [][TickStep =>
          \A i \in 1 .. Len(objects) :
            (IsOscillator(objects[i]) /\ objects[i].active) =>
              /\ objects'[i].y = objects[i].y + objects[i].vy
              /\ objects'[i].vy # objects[i].vy
                   <=> objects'[i].y \in {objects[i].minY, objects[i].maxY}]_vars

\* an Elevator has come up to minY and turned, and a Piranha has gone down
\* to maxY and turned
C28_Witness ==
  /\ nTicks > 0
  /\ \E i \in 1 .. Len(objects) :
       /\ objects[i].type = "elevator" /\ objects[i].moving
       /\ objects[i].y = objects[i].minY /\ objects[i].vy = P(1)
  /\ \E i \in 1 .. Len(objects) :
       /\ objects[i].type = "piranha" /\ objects[i].active
       /\ objects[i].y < objects[i].maxY /\ objects[i].y > objects[i].maxY - P(40)
       /\ objects[i].vy = -P(1)

\* the player is grounded and its box is on the moving Elevator objects[i]'s,
\* from above, before and after the Elevator's move of this step
RidesElevator(i) ==
  /\ objects[i].type = "elevator" /\ objects[i].moving
  /\ objects'[i].y # objects[i].y
  /\ mario.grounded
  /\ checkCollision(mario, objects[i]) /\ mario.y <= objects[i].y
  /\ checkCollision(mario, objects'[i]) /\ mario.y <= objects'[i].y

IsWalker(o) == o.active /\ (o.type = "goomba" \/ (o.type = "koopa" /\ ~o.shell))

\* objects[i] has turned round in this step
Turns(i) == IsWalker(objects[i]) /\ IsWalker(objects'[i]) /\ objects'[i].vx = -objects[i].vx

\* the walker o, as the objects objs stand, turns in the next frame: the test
\* of lines 1064-1075 after the move of line 1063
TurnsNext(objs, o) ==
  LET o1 == [o EXCEPT !.x = o.x + o.vx]
  IN  HitsSolid(objs, o1, o1.x + o1.vx * 2) \/ AtLevelEdge(o1.x)

\* C30: every active Goomba and walking Koopa has 32 <= x <= 1900 and a box
\* that overlaps no active, unbroken solid object in every state; a frame
\* that turns one negates its vx and its direction together, and leaves it
\* where the next frame does not turn it again.
C30_PatrolContained ==
  /\ [](\A i \in 1 .. Len(objects) :
          IsWalker(objects[i]) =>
            /\ P(32) <= objects[i].x /\ objects[i].x <= P(1900)
            /\ \A k \in 1 .. Len(objects) :
                 IsLiveSolid(objects[k]) => ~checkCollision(objects[i], objects[k]))
  /\ [][TickStep =>
          \A i \in 1 .. Len(objects) :
            Turns(i) =>
              /\ objects'[i].direction = -objects[i].direction
              /\ ~TurnsNext(objects', objects'[i])]_vars

\* a Goomba has turned at the left edge of World 1-1 and walks right from
\* x = 32, and the first Koopa of World 1-2 has turned at the brick stair
C30_Witness ==
  \/ /\ currentLevel = 1 /\ nTicks > 8
     /\ IsWalker(objects[74]) /\ objects[74].vx > 0 /\ objects[74].x < P(40)
  \/ /\ currentLevel = 2 /\ nTicks > 0
     /\ \E i \in 1 .. Len(objects) :
          /\ objects[i].type = "koopa" /\ IsWalker(objects[i])
          /\ objects[i].vx > 0 /\ objects[i].x < P(1000)

IsBehaviorKill(e) == e.kind \in {"shellKill", "fireballKill"}

\* the player's box as a record of the log has it
BoxOf(snap) == [x |-> snap.x, y |-> snap.y, width |-> P(20), height |-> snap.height]

\* C31: an enemy a moving shell or a fireball has deactivated in the
\* behaviour pass of a frame has no later step in that frame: the
\* interaction pass neither stomps it nor kicks it nor lets it damage the
\* player nor scores for it again.
C31_KilledEnemySkipped ==
  \A n \in 1 .. Len(log) :
    IsBehaviorKill(log[n]) =>
      /\ ~log[n].opost.active
      /\ \A m \in n + 1 .. Len(log) : log[m].idx # log[n].idx

\* a fireball has deactivated a Goomba that is on the player's box when the
\* interaction pass begins
C31_Witness ==
  \E n \in 1 .. Len(log) : \E b \in n + 1 .. Len(log) :
    /\ IsBehaviorKill(log[n])
    /\ log[b].kind = "interact"
    /\ checkCollision(BoxOf(log[b].pre), log[n].opost)

\* C32: lives is never negative.
C32_LivesNonNegative == lives >= 0

\* C33: a running game has at least one life.
C33_RunningHasLife == gameRunning => lives >= 1

\* C34: in a frame in which the player stomps an enemy, no enemy contact of
\* the interaction pass changes the player's tier or lives.
C34_StompNoDamage ==
  (\E n \in 1 .. Len(log) : log[n].kind = "stomp") =>
    \A m \in 1 .. Len(log) :
      IsEnemyContact(log[m]) =>
        /\ Rank(log[m].post) = Rank(log[m].pre)
        /\ log[m].post.lives = log[m].pre.lives

FlagStep(e) == e.kind = "flag"

CountOf(objs, Is(_)) == Cardinality({i \in 1 .. Len(objs) : Is(objs[i])})

IsLifeSource(o) == o.active /\ o.type \in {"oneup", "block"}

IsCoinSource(o) == o.active /\ o.type \in {"coin", "block"}

\* the lives the player has and can still get: one for each 1-Up on the
\* field or in a question block, one for each hundred coins, a question
\* block being worth two coins at most
LifePotential(objs, l, c) ==
  l + CountOf(objs, IsLifeSource)
    + ((c + CountOf(objs, IsCoinSource) + CountOf(objs, LAMBDA o : o.active /\ o.type = "block"))
         \div 100)

C37_TierEncoding ==
  /\ mario.fire => mario.big
  /\ mario.height = IF mario.big THEN P(28) ELSE P(20)

\* a frame has changed the player's tier
C37_Witness ==
  /\ Len(log) > 0
  /\ Rank(mario) # Rank(log[1].pre)

\* a step of the interaction pass on a shelled Koopa that is moving
IsMovingShellContact(e) ==
  /\ IsEnemyContact(e)
  /\ e.opre.type = "koopa" /\ e.opre.shell /\ e.opre.vx # 0

IsBlockHit(e) == e.kind \in {"hitQuestion", "hitBrick"}

\* C39: at most one question block or brick is hit from below in a frame: the
\* hit leaves the player falling at 3 with its head at the block's bottom edge
\* and no second hit follows it.
C39_OneBlockPerTick ==
  \A n \in 1 .. Len(log) :
    IsBlockHit(log[n]) =>
      /\ log[n].post.vy = P(3)
      /\ log[n].post.y = log[n].opre.y + log[n].opre.height
      /\ \A m \in 1 .. Len(log) : IsBlockHit(log[m]) => m = n

\* a block has been hit by a player whose box was under a second block or
\* brick at the same height as well
C39_Witness ==
  \E n \in 1 .. Len(log) : \E j \in 1 .. Len(objects) :
    /\ IsBlockHit(log[n])
    /\ j # log[n].idx
    /\ objects[j].type \in {"block", "brick"} /\ IsLiveSolid(objects[j])
    /\ objects[j].y = log[n].opre.y
    /\ log[n].pre.x < objects[j].x + objects[j].width
    /\ log[n].pre.x + P(20) > objects[j].x

Spawned(l) == \E n \in 1 .. Len(l) : l[n].kind = "shoot"

\* an active fireball within 100 of the player
FireballNear(objs, m) ==
  \E i \in 1 .. Len(objs) :
    /\ objs[i].type = "fireball" /\ objs[i].active
    /\ Abs(objs[i].x - m.x) <= P(100)

\* C40 as stated: the frame that runs next spawns a fireball only if the
\* player is Fire and the X key is held, never while an active fireball lies
\* within 100 of the player, and never if the frame before it spawned one.
C40_FireballRateLimit ==
  gameRunning =>
    \A rnd \in RandomSpawns :
      Spawned(gameLoop(World(rnd), keys).ev) =>
        /\ mario.fire /\ "KeyX" \in keys
        /\ ~FireballNear(objects, mario)
        /\ ~Spawned(log)
=============================================================================
